---------------------------- MODULE Spec2Model ----------------------------
(***************************************************************************)
(* Festival Tycoon: Sound Camp Builder (Lite).                             *)
(*                                                                         *)
(* A model of the simulation core of the game: the wiring-based power      *)
(* allocator (game/logic.ts), the editing actions of the App component     *)
(* (place, select, connect, delete, nudge, rotate, toggle, refuel, undo,   *)
(* clear, load), and the per-frame tick (crowd easing, agents, economy,    *)
(* fuel, clock, milestones).                                               *)
(*                                                                         *)
(* Conventions.                                                            *)
(*  - Every event handler and every frame callback is one atomic action:   *)
(*    the program is single threaded, and React has re-rendered and run    *)
(*    its effects before the next event is delivered.                      *)
(*  - Values React derives with useMemo (powerResult, scoring, vibeField)  *)
(*    are operators over the state they are memoised on.                   *)
(*  - Real numbers are kept exactly, in fixed point:                       *)
(*      dt      in frames of 1/60 s (one in-game minute each),             *)
(*      fuel    in 1/600 of a percent,                                     *)
(*      crowd   in tenths of a person (the code rounds to one decimal),    *)
(*      money   in 1/30000 of a dollar.                                    *)
(*    With these units every product the tick computes is an integer.      *)
(*  - powerMap, a GRID_H x GRID_W boolean matrix, is the set of the tiles  *)
(*    <<x, y>> it holds true for.                                          *)
(*  - An absent optional field (on, fuel of an item that is no generator)  *)
(*    is FALSE / 0; absent ids (selected, connectFromGenId) are NoId.      *)
(***************************************************************************)
EXTENDS Integers, Sequences, FiniteSets, TLC

(***************************************************************************)
(* game/constants.ts                                                       *)
(***************************************************************************)
GRID_W == 20
GRID_H == 12
START_MONEY == 500
GEN_CAPACITY == 6
\* GEN_BASE_FUEL_DRAIN = 0.4 and GEN_FUEL_PER_POWER = 0.8, in tenths
GEN_BASE_FUEL_DRAIN_x10 == 4
GEN_FUEL_PER_POWER_x10 == 8
WIRE_COST_PER_TILE == 2
WIRE_BASE_COST == 5

ITEM_DEFS ==
  [ speaker_s |-> [cost |-> 50,  baseVibe |-> 6,  noise |-> 2, power |-> 1, range |-> 3],
    speaker_l |-> [cost |-> 120, baseVibe |-> 12, noise |-> 4, power |-> 2, range |-> 3],
    deck      |-> [cost |-> 150, baseVibe |-> 10, noise |-> 1, power |-> 1, range |-> 3],
    light     |-> [cost |-> 80,  baseVibe |-> 5,  noise |-> 0, power |-> 1, range |-> 2],
    tent      |-> [cost |-> 60,  baseVibe |-> 4,  noise |-> 0, power |-> 0, range |-> 2],
    genny     |-> [cost |-> 100, baseVibe |-> 0,  noise |-> 3, power |-> 0, range |-> 4] ]

ItemKey == DOMAIN ITEM_DEFS

NoId == 0

(***************************************************************************)
(* Fixed-point units.                                                      *)
(***************************************************************************)
\* fuel units per percent: dt/60 s * (x10 rate)/10 percent per second
FuelUnit == 60 * 10
\* money units per dollar: dt/60 s * crowd/10 * 0.02 $ = dt * crowd10 / 30000
MoneyUnit == 60 * 10 * 50
FullFuel == 100 * FuelUnit

(***************************************************************************)
(* game/logic.ts                                                           *)
(***************************************************************************)
clamp(n, lo, hi) == IF n < lo THEN lo ELSE IF n > hi THEN hi ELSE n

Abs(n) == IF n < 0 THEN -n ELSE n

ItemIds(its) == {its[k].id : k \in DOMAIN its}

\* itemById.get(id): the item with that id (the last one, as Map's constructor
\* keeps the last entry of a repeated key)
itemById(its, id) ==
  its[CHOOSE k \in DOMAIN its :
        /\ its[k].id = id
        /\ \A m \in DOMAIN its : its[m].id = id => m <= k]

\* a placement test that moves the position into the grid before looking
canPlaceClamped(its, x, y) ==
  ~ \E k \in DOMAIN its : /\ its[k].x = clamp(x, 0, GRID_W - 1)
                          /\ its[k].y = clamp(y, 0, GRID_H - 1)

\* a placement test that looks at the grid's edges only
canPlaceInGrid(its, x, y) == ~ (x < 0 \/ y < 0 \/ x >= GRID_W \/ y >= GRID_H)

canPlace(its, x, y) ==
  IF x < 0 \/ y < 0 \/ x >= GRID_W \/ y >= GRID_H
    THEN FALSE
    ELSE ~ \E k \in DOMAIN its : its[k].x = x /\ its[k].y = y

\* a filter that takes every generator, switched on or not, fuelled or not
IsGen(i) == i.defKey = "genny"

\* a filter that forgets the fuel
IsSwitchedOn(i) == i.defKey = "genny" /\ i.on

\* the filter of runningGens
IsRunningGen(i) == i.defKey = "genny" /\ i.on /\ i.fuel > 0

\* a draw test that lets every linked item through
DrawsAnything(consumer) == TRUE

\* if (draw <= 0) continue;
DrawsPower(consumer) == ITEM_DEFS[consumer.defKey].power > 0

\* a capacity test that lets every draw through
FitsAnything(draw, capLeft) == TRUE

\* if (draw > capLeft) continue;
FitsCapacity(draw, capLeft) == ~ (draw > capLeft)

\* Array.prototype.sort with (a, b) => a.w.length - b.w.length: stable,
\* ascending by stored length.  Insert(s, w) puts w after every element
\* that is not longer than it.
RECURSIVE Insert(_, _)
Insert(s, w) ==
  IF s = << >> THEN << w >>
  ELSE IF s[Len(s)].length <= w.length THEN Append(s, w)
  ELSE Append(Insert(SubSeq(s, 1, Len(s) - 1), w), s[Len(s)])

\* a sort that leaves the links in the order of the wires
SortNone(s) == s

RECURSIVE SortByLength(_)
SortByLength(s) ==
  IF s = << >> THEN << >>
  ELSE Insert(SortByLength(SubSeq(s, 1, Len(s) - 1)), s[Len(s)])

\* a lookup that falls back to the first item when the consumer is missing
LinksOfFirstItem(g, its, ws) ==
  LET mine == SelectSeq(ws, LAMBDA w : w.fromGenId = g.id)
  IN  SortByLength([n \in DOMAIN mine |->
                      IF mine[n].toItemId \in ItemIds(its)
                        THEN mine[n]
                        ELSE [mine[n] EXCEPT !.toItemId = its[1].id]])

\* (byGen.get(g.id) || []).map(...).filter(x => !!x.it).sort(...)
LinksOf(g, its, ws) ==
  SortByLength(SelectSeq(ws, LAMBDA w :
                   w.fromGenId = g.id /\ w.toItemId \in ItemIds(its)))

\* The loop over one generator's links.  st = [capLeft, load, tiles, allocs]:
\* allocs logs the consumers the loop body allocated, in order.
RECURSIVE PowerLinks(_, _, _, _)
PowerLinks(links, k, its, st) ==
  IF k > Len(links) THEN st
  ELSE
    LET consumer == itemById(its, links[k].toItemId)
        draw == ITEM_DEFS[consumer.defKey].power
    IN  IF ~ DrawsPower(consumer) THEN PowerLinks(links, k + 1, its, st)
        ELSE IF ~ FitsCapacity(draw, st.capLeft) THEN PowerLinks(links, k + 1, its, st)
        ELSE PowerLinks(links, k + 1, its,
               [capLeft |-> st.capLeft - draw,
                load    |-> st.load + draw,
                tiles   |-> st.tiles \cup {<< consumer.x, consumer.y >>},
                allocs  |-> Append(st.allocs, consumer.id)])

\* The loop over runningGens.  acc = [powerMap, genLoads, allocs]; allocs
\* logs <<generator id, consumer id>> for every allocation made.
RECURSIVE PowerGens(_, _, _, _, _)
PowerGens(gens, k, its, ws, acc) ==
  IF k > Len(gens) THEN acc
  ELSE
    LET g == gens[k]
        st == PowerLinks(LinksOf(g, its, ws), 1, its,
                [capLeft |-> GEN_CAPACITY, load |-> 0, tiles |-> {}, allocs |-> << >>])
    IN  PowerGens(gens, k + 1, its, ws,
          [powerMap |-> acc.powerMap \cup st.tiles,
           genLoads |-> [id \in DOMAIN acc.genLoads \cup {g.id} |->
                           IF id = g.id THEN st.load ELSE acc.genLoads[id]],
           allocs   |-> acc.allocs \o
                          [n \in 1..Len(st.allocs) |-> << g.id, st.allocs[n] >>]])

computePowerFromWires(its, ws) ==
  PowerGens(SelectSeq(its, IsRunningGen), 1, its, ws,
            [powerMap |-> {}, genLoads |-> << >>, allocs |-> << >>])


\* powerMap[it.y]?.[it.x] ?? false
TilePowered(powerMap, it) == << it.x, it.y >> \in powerMap

\* a distance test that leaves out the radius itself
WithinStrictly(a, b, r) == (a.x - b.x) * (a.x - b.x) + (a.y - b.y) * (a.y - b.y) < r * r

\* dist2(ax, ay, bx, by) <= r, with dist2 = Math.hypot
Within(a, b, r) == (a.x - b.x) * (a.x - b.x) + (a.y - b.y) * (a.y - b.y) <= r * r

\* a rounding that drops the half
RoundDownHalves(h) == h \div 2

\* Math.round of a number given in halves: floor(h / 2 + 1 / 2)
RoundHalves(h) == (h + 1) \div 2

RECURSIVE SumSeq(_)
SumSeq(s) == IF s = << >> THEN 0 ELSE s[1] + SumSeq(Tail(s))

\* a localVibe whose bonuses count only the decks and lights that are powered
LocalVibePoweredOnly2(it, its, powerMap) ==
  LET def == ITEM_DEFS[it.defKey]
      idx == DOMAIN its
      isSpeaker(i) == i.defKey = "speaker_s" \/ i.defKey = "speaker_l"
      base == IF def.power > 0 /\ ~ TilePowered(powerMap, it) THEN 0 ELSE 2 * def.baseVibe
      nearDeck == \E k \in idx : /\ its[k].defKey = "deck" /\ Within(its[k], it, 3)
                                 /\ TilePowered(powerMap, its[k])
      closeSpk == \E k \in idx : isSpeaker(its[k]) /\ its[k].id # it.id /\ Within(its[k], it, 2)
      affectedTents == Cardinality({k \in idx : its[k].defKey = "tent" /\ Within(its[k], it, 2)})
      nearLight == \E k \in idx : /\ its[k].defKey = "light" /\ Within(its[k], it, 2)
                                  /\ TilePowered(powerMap, its[k])
      nearBig == \E k \in idx : its[k].defKey = "speaker_l" /\ Within(its[k], it, 2)
      spk == IF isSpeaker(it)
               THEN (IF nearDeck THEN 2 * RoundHalves(def.baseVibe) ELSE 0)
                    - (IF closeSpk THEN 2 * 4 ELSE 0)
                    - (IF it.defKey = "speaker_l" THEN affectedTents ELSE 0)
               ELSE 0
      tnt == IF it.defKey = "tent"
               THEN (IF nearLight THEN 2 * 3 ELSE 0) - (IF nearBig THEN 3 ELSE 0)
               ELSE 0
  IN  base + spk + tnt

\* localVibe of one item at the end of the loop body, in halves
LocalVibe2(it, its, powerMap) ==
  LET def == ITEM_DEFS[it.defKey]
      idx == DOMAIN its
      isSpeaker(i) == i.defKey = "speaker_s" \/ i.defKey = "speaker_l"
      base == IF def.power > 0 /\ ~ TilePowered(powerMap, it) THEN 0 ELSE 2 * def.baseVibe
      nearDeck == \E k \in idx : its[k].defKey = "deck" /\ Within(its[k], it, 3)
      closeSpk == \E k \in idx : isSpeaker(its[k]) /\ its[k].id # it.id /\ Within(its[k], it, 2)
      affectedTents == Cardinality({k \in idx : its[k].defKey = "tent" /\ Within(its[k], it, 2)})
      nearLight == \E k \in idx : its[k].defKey = "light" /\ Within(its[k], it, 2)
      nearBig == \E k \in idx : its[k].defKey = "speaker_l" /\ Within(its[k], it, 2)
      spk == IF isSpeaker(it)
               THEN (IF nearDeck THEN 2 * RoundHalves(def.baseVibe) ELSE 0)
                    - (IF closeSpk THEN 2 * 4 ELSE 0)
                    - (IF it.defKey = "speaker_l" THEN affectedTents ELSE 0)
               ELSE 0
      tnt == IF it.defKey = "tent"
               THEN (IF nearLight THEN 2 * 3 ELSE 0) - (IF nearBig THEN 3 ELSE 0)
               ELSE 0
  IN  base + spk + tnt

\* localNoise of one item at the end of the loop body
LocalNoise(it, powerMap) ==
  LET def == ITEM_DEFS[it.defKey]
  IN  IF def.power > 0 /\ ~ TilePowered(powerMap, it) THEN def.noise + 1 ELSE def.noise

\* a total that is not floored at 0
scoreAllUnfloored(its, powerMap) ==
  LET sumVibe == SumSeq([k \in DOMAIN its |-> RoundHalves(LocalVibe2(its[k], its, powerMap))])
      sumNoise == SumSeq([k \in DOMAIN its |->
                            IF LocalNoise(its[k], powerMap) < 0 THEN 0
                            ELSE LocalNoise(its[k], powerMap)])
      capped == IF sumNoise > 12
                  THEN sumVibe - RoundHalves(3 * (sumNoise - 12))
                  ELSE sumVibe
  IN  [vibe |-> capped, noise |-> sumNoise]

scoreAll(its, powerMap) ==
  LET sumVibe == SumSeq([k \in DOMAIN its |-> RoundHalves(LocalVibe2(its[k], its, powerMap))])
      sumNoise == SumSeq([k \in DOMAIN its |->
                            IF LocalNoise(its[k], powerMap) < 0 THEN 0
                            ELSE LocalNoise(its[k], powerMap)])
      capped == IF sumNoise > 12
                  THEN sumVibe - RoundHalves(3 * (sumNoise - 12))
                  ELSE sumVibe
  IN  [vibe |-> IF capped < 0 THEN 0 ELSE capped, noise |-> sumNoise]

\* the cells of field: field[y][x] for y < GRID_H and x < GRID_W
GridCells == (0..(GRID_W - 1)) \X (0..(GRID_H - 1))

\* the largest dx * dx + dy * dy inside a window: the widest range is 4
MaxDist2 == 2 * (4 + 2) * (4 + 2)

\* Math.hypot in hundredths, truncated, from the squared distance
Hypot100 == [q \in 0..MaxDist2 |->
               CHOOSE n \in 0..(100 * 2 * (4 + 2)) :
                 n * n <= q * 10000 /\ (n + 1) * (n + 1) > q * 10000]

\* strength * falloff in thousandths, truncated:
\* falloff = 1 / (1 + Math.max(0, d - 0.25))
Spread(strength, dx, dy) ==
  LET d == Hypot100[dx * dx + dy * dy]
      over == IF d - 25 < 0 THEN 0 ELSE d - 25
  IN  (strength * 1000 * 100) \div (100 + over)

\* a strength that does not look at the power map
StrengthIgnoringPower(it, pm) == ITEM_DEFS[it.defKey].baseVibe

\* let strength = def.baseVibe; if (def.power > 0 && !powerMap[it.y]?.[it.x]) strength = 0
Strength(it, pm) ==
  IF ITEM_DEFS[it.defKey].power > 0 /\ ~ TilePowered(pm, it)
    THEN 0
    ELSE ITEM_DEFS[it.defKey].baseVibe

\* the cells the two for loops of one item visit
Window(it) ==
  LET r == IF ITEM_DEFS[it.defKey].range < 1 THEN 1 ELSE ITEM_DEFS[it.defKey].range
      lo(c) == IF c - r - 2 < 0 THEN 0 ELSE c - r - 2
      hi(c, last) == IF c + r + 2 > last THEN last ELSE c + r + 2
  IN  (lo(it.x)..hi(it.x, GRID_W - 1)) \X (lo(it.y)..hi(it.y, GRID_H - 1))

\* computeVibeField(items, powerMap): cell <<x, y>> -> field[y][x] in thousandths
computeVibeField(its, pm) ==
  [c \in GridCells |->
     SumSeq([k \in DOMAIN its |->
               IF Strength(its[k], pm) > 0 /\ c \in Window(its[k])
                 THEN Spread(Strength(its[k], pm), c[1] - its[k].x, c[2] - its[k].y)
                 ELSE 0])]

(***************************************************************************)
(* game/milestones.ts                                                      *)
(***************************************************************************)
defaultGoals ==
  [ g1  |-> [deadlineDay |-> 1, deadlineMin |-> 18 * 60,      reward |-> 150],
    g2  |-> [deadlineDay |-> 1, deadlineMin |-> 22 * 60,      reward |-> 200],
    g3  |-> [deadlineDay |-> 1, deadlineMin |-> 23 * 60 + 30, reward |-> 250],
    g4  |-> [deadlineDay |-> 1, deadlineMin |-> 24 * 60 - 1,  reward |-> 200],
    g5  |-> [deadlineDay |-> 2, deadlineMin |-> 12 * 60,      reward |-> 250],
    g6  |-> [deadlineDay |-> 2, deadlineMin |-> 18 * 60,      reward |-> 300],
    g7  |-> [deadlineDay |-> 2, deadlineMin |-> 20 * 60,      reward |-> 300],
    g8  |-> [deadlineDay |-> 3, deadlineMin |-> 12 * 60,      reward |-> 350],
    g9  |-> [deadlineDay |-> 3, deadlineMin |-> 20 * 60,      reward |-> 400],
    g10 |-> [deadlineDay |-> 3, deadlineMin |-> 24 * 60 - 1,  reward |-> 400] ]

GoalIds == DOMAIN defaultGoals

\* the order of the array defaultGoals() returns
GoalOrder == << "g1", "g2", "g3", "g4", "g5", "g6", "g7", "g8", "g9", "g10" >>

\* g.condition(snap); has(map, k, n) is map[k] >= n
condition(g, s) ==
  CASE g = "g1"  -> s.powered["deck"] >= 1
    [] g = "g2"  -> s.crowd >= 100
    [] g = "g3"  -> s.powered["deck"] >= 1
                    /\ s.powered["speaker_s"] + s.powered["speaker_l"] >= 2
    [] g = "g4"  -> s.built["tent"] >= 2 /\ s.powered["light"] >= 1
    [] g = "g5"  -> s.powered["speaker_l"] >= 1 /\ s.powered["light"] >= 1
    [] g = "g6"  -> s.crowd >= 200 /\ s.noise <= 16
    [] g = "g7"  -> s.money >= 900 * MoneyUnit
    [] g = "g8"  -> s.powered["speaker_s"] + s.powered["speaker_l"]
                    + s.powered["deck"] + s.powered["light"] >= 6
    [] g = "g9"  -> s.vibe >= 40
    [] g = "g10" -> s.crowd >= 150 /\ s.noise <= 12

\* a deadline test that is already true at the deadline's minute
isPastOrAt(day, min, nowDay, nowMin) ==
  nowDay > day \/ (nowDay = day /\ nowMin >= min)

isPast(day, min, nowDay, nowMin) ==
  nowDay > day \/ (nowDay = day /\ nowMin > min)

(***************************************************************************)
(* Bounds of the model.                                                    *)
(***************************************************************************)
\* clicks and nudges stay in the corner window (0..MaxTileX) x (0..MaxTileY)
MaxTileX == 2
MaxTileY == 0
\* items on the board
MaxItems == 3
\* wires in state
MaxWires == 2
\* snapshots kept on the undo stack
MaxUndo == 1
\* the clock is not advanced beyond this day
MaxDay == 4
\* events (inputs and frames) of one session
MaxSteps == 7

(***************************************************************************)
(* App.tsx: the state of the App component.                                *)
(***************************************************************************)
VARIABLES
  items,             \* useState<PlacedItem[]>: a sequence of item records
  wires,             \* useState<Wire[]>: a sequence of [fromGenId, toItemId, length]
  selected,          \* useState<string | null>
  palette,           \* useState<ItemKey>
  money,             \* useState<number>, in 1/MoneyUnit dollars
  vibe,              \* useState(0): the value the scheduled tick closure holds
  noise,             \* useState(0): the value the scheduled tick closure holds
  crowd,             \* useState(0), in tenths
  dayNum,            \* useState(1)
  timeMin,           \* useState(0)
  running,           \* useState(false)
  goals,             \* useState<Goal[]>: goal id -> status
  rewarded,          \* how many times setMoney(m => m + g.reward) ran, per goal
  toast,             \* useState<string | null>: NoToast or <<kind, goal id>>
  connectFromGenId,  \* useState<string | null>
  undoStack,         \* useRef<PlacedItem[][]>
  agents,            \* agentsRef.current: the serial numbers of the agents
  agentsMade,        \* how many agents were ever pushed
  econTs,            \* econTsRef.current, as its lag behind the latest frame
  rafScheduled,      \* a frame callback is requested
  call,              \* the last direct call of a game/logic.ts function
  steps              \* the events handled so far

vars == << items, wires, selected, palette, money, vibe, noise, crowd, dayNum,
           timeMin, running, goals, rewarded, toast, connectFromGenId,
           undoStack, agents, agentsMade, econTs, rafScheduled, call >>

NoToast == << >>

\* econTsRef.current before the first frame
NullTs == -1
NoCall == [fn |-> "none"]

\* a power map that is not recomputed when the wires change
powerMapBeforeWires == computePowerFromWires(items, << >>).powerMap

\* const powerResult = useMemo(() => computePowerFromWires(items, wires), ...)
powerResult == computePowerFromWires(items, wires)
powerMap == powerResult.powerMap
genLoads == powerResult.genLoads

\* const scoring = useMemo(() => scoreAll(items, powerMap), ...)
scoring == scoreAll(items, powerMap)

\* const vibeField = useMemo(() => computeVibeField(items, powerMap), ...)
vibeField == computeVibeField(items, powerMap)

\* crowdTargetRef.current, set by the effect on [scoring]
crowdTarget == clamp(scoring.vibe * 4, 0, 500)

\* cryptoRandomId(): an id no item in state, on the undo stack or at the end
\* of a wire carries (the smallest such number, ids being opaque)
UsedIds ==
  ItemIds(items)
  \cup UNION {ItemIds(undoStack[k]) : k \in DOMAIN undoStack}
  \cup {wires[k].fromGenId : k \in DOMAIN wires}
  \cup {wires[k].toItemId : k \in DOMAIN wires}
  \cup {selected, connectFromGenId}

cryptoRandomId == CHOOSE n \in 1..(Cardinality(UsedIds) + 1) : n \notin UsedIds

\* items.find(it => it.x === tx && it.y === ty): the first item on the tile
HitAt(tx, ty) == {k \in DOMAIN items :
                    /\ items[k].x = tx /\ items[k].y = ty
                    /\ \A m \in DOMAIN items :
                         (items[m].x = tx /\ items[m].y = ty) => k <= m}

\* selected && items.find(i => i.id === selected)
HasSel == selected # NoId /\ selected \in ItemIds(items)
sel == items[CHOOSE k \in DOMAIN items :
               items[k].id = selected
               /\ \A m \in DOMAIN items : items[m].id = selected => k <= m]

\* undoStack.current.push(structuredClone(items)); the model keeps the
\* MaxUndo most recent snapshots
pushUndo ==
  undoStack' = IF Len(undoStack) < MaxUndo
                 THEN Append(undoStack, items)
                 ELSE Append(Tail(undoStack), items)

\* The tick effect depends on [vibeField, dayNum, timeMin, toast]: a new tick
\* closure is made in the render that follows a change of items or wires, and
\* that render still holds the vibe and noise state of before the change (the
\* effect on [scoring] sets them after it).
ClosureBeforeScoring == vibe' = scoring.vibe /\ noise' = scoring.noise

\* the state of a fresh mount apart from the layout and the money
InitSession ==
  /\ selected = NoId
  /\ palette = "speaker_s"
  /\ vibe = 0
  /\ noise = 0
  /\ crowd = 0
  /\ dayNum = 1
  /\ timeMin = 0
  /\ running = FALSE
  /\ goals = [g \in GoalIds |-> "pending"]
  /\ rewarded = [g \in GoalIds |-> 0]
  /\ toast = NoToast
  /\ connectFromGenId = NoId
  /\ undoStack = << >>
  /\ agents = << >>
  /\ agentsMade = 0
  /\ econTs = NullTs
  /\ rafScheduled = TRUE
  /\ call = NoCall
  /\ steps = 0

Init ==
  /\ items = << >>
  /\ wires = << >>
  /\ money = START_MONEY * MoneyUnit
  /\ InitSession

(***************************************************************************)
(* App.tsx: the input handlers.                                            *)
(***************************************************************************)
\* the palette buttons: onClick={() => setPalette(d.key)}
setPalette(k) ==
  /\ palette' = k
  /\ UNCHANGED << items, wires, selected, money, vibe, noise, crowd, dayNum,
                  timeMin, running, goals, rewarded, toast, connectFromGenId,
                  undoStack, agents, agentsMade, econTs, rafScheduled, call >>

NewItem(key, id, tx, ty) ==
  [id |-> id, defKey |-> key, x |-> tx, y |-> ty, rot |-> 0,
   on |-> FALSE, fuel |-> IF key = "genny" THEN FullFuel ELSE 0]

\* Math.abs(gen.x - hit.x) + Math.abs(gen.y - hit.y)
WireLength(gen, hit) == Abs(gen.x - hit.x) + Abs(gen.y - hit.y)

\* a wire that costs nothing
WireCostFree(length) == 0

WireCost(length) == (WIRE_BASE_COST + length * WIRE_COST_PER_TILE) * MoneyUnit

\* onCanvasClick, the tile (tx, ty) being pxToTile of the mouse position
onCanvasClick(tx, ty) ==
  LET hit == HitAt(tx, ty)
      inGrid == ~ (tx < 0 \/ ty < 0 \/ tx >= GRID_W \/ ty >= GRID_H)
      others == << selected, palette, vibe, noise, crowd, dayNum, timeMin,
                   running, goals, rewarded, toast, agents, agentsMade,
                   econTs, rafScheduled, call >>
  IN
  \/ \* outside the grid: return
     /\ ~ inGrid
     /\ UNCHANGED vars
  \/ \* connect mode, a wire is made
     /\ inGrid /\ connectFromGenId # NoId
     /\ \E k \in hit :
          /\ ITEM_DEFS[items[k].defKey].power > 0
          /\ connectFromGenId \in ItemIds(items)
          /\ LET gen == itemById(items, connectFromGenId)
                 length == WireLength(gen, items[k])
             IN  /\ ~ (money < WireCost(length))
                 /\ Len(wires) < MaxWires
                 /\ pushUndo
                 /\ money' = money - WireCost(length)
                 /\ wires' = Append(wires, [fromGenId |-> gen.id,
                                            toItemId |-> items[k].id,
                                            length |-> length])
     /\ connectFromGenId' = NoId
     /\ UNCHANGED << items, selected, palette, crowd, dayNum, timeMin, running,
                     goals, rewarded, toast, agents, agentsMade, econTs,
                     rafScheduled, call >>
     /\ ClosureBeforeScoring
  \/ \* connect mode, no wire: nothing hit, a target that draws no power, the
     \* generator gone, or not enough money
     /\ inGrid /\ connectFromGenId # NoId
     /\ \/ hit = {}
        \/ \E k \in hit :
             \/ ~ (ITEM_DEFS[items[k].defKey].power > 0)
             \/ connectFromGenId \notin ItemIds(items)
             \/ /\ connectFromGenId \in ItemIds(items)
                /\ money < WireCost(WireLength(itemById(items, connectFromGenId), items[k]))
     /\ connectFromGenId' = NoId
     /\ UNCHANGED << items, wires, money, undoStack >>
     /\ UNCHANGED others
  \/ \* an item is hit: select it
     /\ inGrid /\ connectFromGenId = NoId
     /\ \E k \in hit : selected' = items[k].id
     /\ UNCHANGED << items, wires, money, undoStack, connectFromGenId, palette,
                     vibe, noise, crowd, dayNum, timeMin, running, goals,
                     rewarded, toast, agents, agentsMade, econTs, rafScheduled,
                     call >>
  \/ \* a free tile, not enough money: alert and return
     /\ inGrid /\ connectFromGenId = NoId /\ hit = {}
     /\ canPlace(items, tx, ty)
     /\ money < ITEM_DEFS[palette].cost * MoneyUnit
     /\ UNCHANGED vars
  \/ \* a free tile: place the palette item
     /\ inGrid /\ connectFromGenId = NoId /\ hit = {}
     /\ canPlace(items, tx, ty)
     /\ ~ (money < ITEM_DEFS[palette].cost * MoneyUnit)
     /\ Len(items) < MaxItems
     /\ pushUndo
     /\ money' = money - ITEM_DEFS[palette].cost * MoneyUnit
     /\ items' = Append(items, NewItem(palette, cryptoRandomId, tx, ty))
     /\ UNCHANGED << wires, connectFromGenId >>
     /\ UNCHANGED << selected, palette, crowd, dayNum, timeMin, running, goals,
                     rewarded, toast, agents, agentsMade, econTs, rafScheduled,
                     call >>
     /\ ClosureBeforeScoring

nextRot(r) == IF r = 0 THEN 90 ELSE IF r = 90 THEN 180 ELSE IF r = 180 THEN 270 ELSE 0

\* what every key handler below leaves alone
KeyFrame == << palette, crowd, dayNum, timeMin, running, goals, rewarded, toast,
               agents, agentsMade, econTs, rafScheduled, call >>

\* onKey, "r" / "R"
onKeyRotate ==
  /\ HasSel
  /\ pushUndo
  /\ items' = [k \in DOMAIN items |->
                 IF items[k].id = selected
                   THEN [items[k] EXCEPT !.rot = nextRot(@)] ELSE items[k]]
  /\ ClosureBeforeScoring
  /\ UNCHANGED << wires, money, selected, connectFromGenId >>
  /\ UNCHANGED KeyFrame

\* Math.floor(ITEM_DEFS[sel.defKey].cost * 0.6)
Refund(key) == (ITEM_DEFS[key].cost * 6) \div 10

\* arr.filter((it) => it.id !== selected)
ItemsWithout(its, id) == SelectSeq(its, LAMBDA it : it.id # id)

\* a filter that drops only the wires leaving the item
WiresNotFrom(ws, id) == SelectSeq(ws, LAMBDA w : w.fromGenId # id)

\* ws.filter((w) => w.fromGenId !== selected && w.toItemId !== selected)
WiresWithout(ws, id) == SelectSeq(ws, LAMBDA w : w.fromGenId # id /\ w.toItemId # id)

\* onKey, "Delete" / "Backspace"
onKeyDelete ==
  /\ HasSel
  /\ pushUndo
  /\ money' = money + Refund(sel.defKey) * MoneyUnit
  /\ items' = ItemsWithout(items, selected)
  /\ wires' = WiresWithout(wires, selected)
  /\ selected' = NoId
  /\ ClosureBeforeScoring
  /\ UNCHANGED connectFromGenId
  /\ UNCHANGED KeyFrame

\* onKey, "Escape"
onKeyEscape ==
  /\ selected' = NoId
  /\ UNCHANGED << items, wires, money, vibe, noise, connectFromGenId, undoStack >>
  /\ UNCHANGED KeyFrame

\* onKey, the arrow keys: (dx, dy) is the direction of the key
onKeyArrow(dx, dy) ==
  /\ HasSel
  /\ LET nx == clamp(sel.x + dx, 0, GRID_W - 1)
         ny == clamp(sel.y + dy, 0, GRID_H - 1)
     IN  /\ nx <= MaxTileX /\ ny <= MaxTileY
         /\ IF canPlace(ItemsWithout(items, sel.id), nx, ny)
              THEN /\ pushUndo
                   /\ items' = [k \in DOMAIN items |->
                                  IF items[k].id = sel.id
                                    THEN [items[k] EXCEPT !.x = nx, !.y = ny]
                                    ELSE items[k]]
                   /\ ClosureBeforeScoring
              ELSE UNCHANGED << items, undoStack, vibe, noise >>
  /\ UNCHANGED << wires, money, selected, connectFromGenId >>
  /\ UNCHANGED KeyFrame

\* onKey "f" and the inspector's onToggleGenerator, both on the selected generator
onToggleGenerator ==
  /\ HasSel /\ sel.defKey = "genny"
  /\ pushUndo
  /\ items' = [k \in DOMAIN items |->
                 IF items[k].id = sel.id
                   THEN [items[k] EXCEPT !.on = ~ @] ELSE items[k]]
  /\ ClosureBeforeScoring
  /\ UNCHANGED << wires, money, selected, connectFromGenId >>
  /\ UNCHANGED KeyFrame

\* onKey "c" and the inspector's onConnectStart
onConnectStart ==
  /\ HasSel /\ sel.defKey = "genny"
  /\ connectFromGenId' = sel.id
  /\ UNCHANGED << items, wires, money, vibe, noise, selected, undoStack >>
  /\ UNCHANGED KeyFrame

\* onKey " " and the Play / Pause button
toggleRunning ==
  /\ running' = ~ running
  /\ UNCHANGED << items, wires, selected, palette, money, vibe, noise, crowd,
                  dayNum, timeMin, goals, rewarded, toast, connectFromGenId,
                  undoStack, agents, agentsMade, econTs, rafScheduled, call >>

REFUEL_COST == 25
REFUEL_AMOUNT == 50

\* a refuel that does not look at the money
onRefuelUnchecked ==
  /\ HasSel /\ sel.defKey = "genny"
  /\ pushUndo
  /\ money' = money - REFUEL_COST * MoneyUnit
  /\ items' = [k \in DOMAIN items |->
                 IF items[k].id = sel.id
                   THEN [items[k] EXCEPT !.fuel =
                           IF @ + REFUEL_AMOUNT * FuelUnit > FullFuel
                             THEN FullFuel
                             ELSE @ + REFUEL_AMOUNT * FuelUnit]
                   ELSE items[k]]
  /\ ClosureBeforeScoring
  /\ UNCHANGED << wires, selected, connectFromGenId >>
  /\ UNCHANGED KeyFrame

\* a refuel that adds the amount without the cap at 100
onRefuelUncapped ==
  /\ HasSel /\ sel.defKey = "genny"
  /\ IF money < REFUEL_COST * MoneyUnit
       THEN UNCHANGED << items, money, undoStack, vibe, noise >>
       ELSE /\ pushUndo
            /\ money' = money - REFUEL_COST * MoneyUnit
            /\ items' = [k \in DOMAIN items |->
                           IF items[k].id = sel.id
                             THEN [items[k] EXCEPT !.fuel = @ + REFUEL_AMOUNT * FuelUnit]
                             ELSE items[k]]
            /\ ClosureBeforeScoring
  /\ UNCHANGED << wires, selected, connectFromGenId >>
  /\ UNCHANGED KeyFrame

\* the inspector's onRefuel, on the selected generator
onRefuel ==
  /\ HasSel /\ sel.defKey = "genny"
  /\ IF money < REFUEL_COST * MoneyUnit
       THEN UNCHANGED << items, money, undoStack, vibe, noise >>
       ELSE /\ pushUndo
            /\ money' = money - REFUEL_COST * MoneyUnit
            /\ items' = [k \in DOMAIN items |->
                           IF items[k].id = sel.id
                             THEN [items[k] EXCEPT !.fuel =
                                     IF @ + REFUEL_AMOUNT * FuelUnit > FullFuel
                                       THEN FullFuel
                                       ELSE @ + REFUEL_AMOUNT * FuelUnit]
                             ELSE items[k]]
            /\ ClosureBeforeScoring
  /\ UNCHANGED << wires, selected, connectFromGenId >>
  /\ UNCHANGED KeyFrame

\* undo()
undo ==
  /\ IF undoStack = << >>
       THEN UNCHANGED << items, selected, undoStack, vibe, noise >>
       ELSE /\ items' = undoStack[Len(undoStack)]
            /\ undoStack' = SubSeq(undoStack, 1, Len(undoStack) - 1)
            /\ selected' = NoId
            /\ ClosureBeforeScoring
  /\ UNCHANGED << wires, money, connectFromGenId >>
  /\ UNCHANGED KeyFrame

\* clearAll(), the confirm dialog accepted
clearAll ==
  /\ pushUndo
  /\ items' = << >>
  /\ selected' = NoId
  /\ wires' = << >>
  /\ money' = START_MONEY * MoneyUnit
  /\ ClosureBeforeScoring
  /\ UNCHANGED connectFromGenId
  /\ UNCHANGED KeyFrame

\* the toast's onAnimationEnd={() => setToast(null)}; the tick effect re-runs
\* and its closure takes the vibe and noise state of now
toastEnd ==
  /\ toast # NoToast
  /\ toast' = NoToast
  /\ vibe' = scoring.vibe
  /\ noise' = scoring.noise
  /\ UNCHANGED << items, wires, selected, palette, money, crowd, dayNum,
                  timeMin, running, goals, rewarded, connectFromGenId,
                  undoStack, agents, agentsMade, econTs, rafScheduled, call >>

(***************************************************************************)
(* App.tsx: the frame callback.                                            *)
(***************************************************************************)
\* an updater whose step is not limited by the distance left
EaseCrowdNoMin(c, target10) ==
  LET diff == target10 - c
      a == Abs(diff)
  IN  IF diff = 0 THEN c
      ELSE IF diff > 0
        THEN c + 15 + ((a + 25) \div 50)
        ELSE c - 15 + ((25 - a) \div 50)

\* an updater whose step is 2 % of the gap, without the 1.5 it starts from
EaseCrowdNoFloor(c, target10) ==
  LET diff == target10 - c
      a == Abs(diff)
  IN  IF diff > 0
        THEN c + ((a + 25) \div 50)
        ELSE c - ((a + 25) \div 50)

\* setCrowd's updater, crowd and target in tenths:
\*   step = sign(diff) * min(|diff|, 1.5 + |diff| * 0.02)
\*   Math.round((c + step) * 10) / 10
EaseCrowd(c, target10) ==
  LET diff == target10 - c
      a == Abs(diff)
  IN  IF 50 * a <= 50 * 15 + a
        THEN c + diff
        ELSE IF diff > 0
          THEN c + 15 + ((a + 25) \div 50)
          ELSE c - 15 + ((25 - a) \div 50)

\* clamp(Math.floor(crowdRef.current / 4), 10, 120)
TargetAgents(c) == clamp(c \div 40, 10, 120)

\* a resize that drops the surplus from the front of the list
ResizeAgentsDropFirst(ag, made, n) ==
  IF Len(ag) < n
    THEN ag \o [k \in 1..(n - Len(ag)) |-> made + k]
    ELSE SubSeq(ag, Len(ag) - n + 1, Len(ag))

\* while (ag.length < targetAgents) ag.push(...); if (ag.length > targetAgents)
\* ag.splice(targetAgents).  An agent is its serial number; its position and
\* velocity are not modelled.
ResizeAgents(ag, made, n) ==
  IF Len(ag) < n
    THEN ag \o [k \in 1..(n - Len(ag)) |-> made + k]
    ELSE SubSeq(ag, 1, n)

\* an updater that burns fuel but never switches a generator off
DrainFuelStayOn(i, loads, dt) ==
  IF i.defKey # "genny" \/ ~ i.on THEN i
  ELSE
    LET load == IF i.id \in DOMAIN loads THEN loads[i.id] ELSE 0
        perSec == GEN_BASE_FUEL_DRAIN_x10 + load * GEN_FUEL_PER_POWER_x10
        newFuel == IF i.fuel - dt * perSec < 0 THEN 0 ELSE i.fuel - dt * perSec
    IN  [i EXCEPT !.fuel = newFuel]

\* a drain that charges the load only, without the base drain
DrainFuelNoBase(i, loads, dt) ==
  IF i.defKey # "genny" \/ ~ i.on THEN i
  ELSE
    LET load == IF i.id \in DOMAIN loads THEN loads[i.id] ELSE 0
        perSec == load * GEN_FUEL_PER_POWER_x10
        newFuel == IF i.fuel - dt * perSec < 0 THEN 0 ELSE i.fuel - dt * perSec
    IN  [i EXCEPT !.fuel = newFuel, !.on = newFuel > 0]

\* the updater of setItems in the tick, for one item
DrainFuel(i, loads, dt) ==
  IF i.defKey # "genny" \/ ~ i.on THEN i
  ELSE
    LET load == IF i.id \in DOMAIN loads THEN loads[i.id] ELSE 0
        perSec == GEN_BASE_FUEL_DRAIN_x10 + load * GEN_FUEL_PER_POWER_x10
        newFuel == IF i.fuel - dt * perSec < 0 THEN 0 ELSE i.fuel - dt * perSec
    IN  [i EXCEPT !.fuel = newFuel, !.on = newFuel > 0]

\* buildSnapshot()
CountKind(its, key, pm, onlyPowered) ==
  Cardinality({k \in DOMAIN its :
                 its[k].defKey = key /\ (onlyPowered => TilePowered(pm, its[k]))})

buildSnapshot ==
  [money   |-> money,
   crowd   |-> (crowd + 5) \div 10,
   vibe    |-> vibe,
   noise   |-> noise,
   built   |-> [key \in ItemKey |-> CountKind(items, key, powerMap, FALSE)],
   powered |-> [key \in ItemKey |-> CountKind(items, key, powerMap, TRUE)]]

\* a loop body without the test of g.status
GoalStepUnguarded(status, met, past) ==
  IF met THEN [status |-> "completed", paid |-> TRUE]
  ELSE IF past THEN [status |-> "failed", paid |-> FALSE]
  ELSE [status |-> status, paid |-> FALSE]

\* a loop body that pays the reward whenever the condition holds
GoalStepPaysAgain(status, met, past) ==
  IF status # "pending" THEN [status |-> status, paid |-> met]
  ELSE IF met THEN [status |-> "completed", paid |-> TRUE]
  ELSE IF past THEN [status |-> "failed", paid |-> FALSE]
  ELSE [status |-> status, paid |-> FALSE]

\* the body of prev.map((g) => ...) in the milestones updater, for a goal of
\* that status whose condition is `met` and whose deadline is `past`: the
\* status it returns, and whether setMoney((m) => m + g.reward) ran
GoalStep(status, met, past) ==
  IF status # "pending" THEN [status |-> status, paid |-> FALSE]
  ELSE IF met THEN [status |-> "completed", paid |-> TRUE]
  ELSE IF past THEN [status |-> "failed", paid |-> FALSE]
  ELSE [status |-> status, paid |-> FALSE]

\* the milestones updater over all goals, read at (nowDay, nowMin)
GoalsAfter(gs, snap, nowDay, nowMin) ==
  [g \in GoalIds |->
     GoalStep(gs[g], condition(g, snap),
              isPast(defaultGoals[g].deadlineDay, defaultGoals[g].deadlineMin,
                     nowDay, nowMin))]

\* the last setToast call of the updater wins; each is made only when the
\* closure's toast is null
ToastAfter(gs, next) ==
  LET changed == {k \in DOMAIN GoalOrder : next[GoalOrder[k]] # gs[GoalOrder[k]]}
      last == CHOOSE k \in changed : \A m \in changed : m <= k
  IN  IF toast = NoToast /\ changed # {}
        THEN << next[GoalOrder[last]], GoalOrder[last] >>
        ELSE toast

\* a ref that always reads true
runningRefStuck == TRUE

\* runningRef.current: the effect on [running] keeps it equal to running
runningRef == running

\* a frame callback that stores the time in econTsRef only while running
StampWhileRunning(dt) ==
  IF runningRef \/ econTs = NullTs THEN 0 ELSE econTs + dt

\* econTsRef.current = now: the ref holds the time of this frame, whether
\* the simulation runs or not
Stamp(dt) == 0

\* the delta the callback computes, now - econTsRef.current: 0 on the first
\* frame (econTsRef is null), else the time since the previous frame and
\* what the ref lay behind it
FrameDelta(dt) == IF econTs = NullTs THEN 0 ELSE econTs + dt

\* tick(): one frame callback; dt is the time since the previous one
tick(dt) ==
  /\ rafScheduled
  /\ econTs' = Stamp(dt)
  /\ rafScheduled' = TRUE
  /\ LET d == FrameDelta(dt)
         after == GoalsAfter(goals, buildSnapshot, dayNum, timeMin)
         nextGoals == [g \in GoalIds |-> after[g].status]
         rewards == SumSeq([k \in DOMAIN GoalOrder |->
                              IF after[GoalOrder[k]].paid
                                THEN defaultGoals[GoalOrder[k]].reward ELSE 0])
         income == d * crowd
         n == TargetAgents(crowd)
         next == timeMin + d
     IN  IF runningRef
           THEN /\ crowd' = EaseCrowd(crowd, crowdTarget * 10)
                /\ agents' = ResizeAgents(agents, agentsMade, n)
                /\ agentsMade' = IF Len(agents) < n
                                   THEN agentsMade + (n - Len(agents))
                                   ELSE agentsMade
                /\ money' = (IF money + income < 0 THEN 0 ELSE money + income)
                            + rewards * MoneyUnit
                /\ items' = [k \in DOMAIN items |-> DrainFuel(items[k], genLoads, d)]
                /\ IF next >= 24 * 60
                     THEN timeMin' = next - 24 * 60 /\ dayNum' = dayNum + 1
                     ELSE timeMin' = next /\ dayNum' = dayNum
                /\ goals' = nextGoals
                /\ rewarded' = [g \in GoalIds |->
                                  IF after[g].paid THEN rewarded[g] + 1 ELSE rewarded[g]]
                /\ toast' = ToastAfter(goals, nextGoals)
                /\ ClosureBeforeScoring
           ELSE UNCHANGED << crowd, agents, agentsMade, money, items, timeMin,
                             dayNum, goals, rewarded, toast, vibe, noise >>
  /\ UNCHANGED << wires, selected, palette, running, connectFromGenId,
                  undoStack, call >>

(***************************************************************************)
(* App.tsx: doManualLoad, and the resume of the last session at mount.  A  *)
(* save holds makeState(money, items, wires) of an earlier moment of play. *)
(***************************************************************************)
\* a running generator with a deck and a large speaker wired to it; the ids
\* are those of the session that made the save
SaveCamp ==
  [items |-> << [id |-> 101, defKey |-> "genny", x |-> 0, y |-> 0, rot |-> 0,
                 on |-> TRUE, fuel |-> FullFuel],
                [id |-> 102, defKey |-> "deck", x |-> 1, y |-> 0, rot |-> 0,
                 on |-> FALSE, fuel |-> 0],
                [id |-> 103, defKey |-> "speaker_l", x |-> 2, y |-> 0, rot |-> 0,
                 on |-> FALSE, fuel |-> 0] >>,
   wires |-> << [fromGenId |-> 101, toItemId |-> 102, length |-> 1],
                [fromGenId |-> 101, toItemId |-> 103, length |-> 2] >>,
   money |-> (START_MONEY - 100 - 150 - 120 - (5 + 2 * 1) - (5 + 2 * 2)) * MoneyUnit]

Saves == {SaveCamp}

doManualLoad(chosen) ==
  /\ items' = chosen.items
  /\ money' = chosen.money
  /\ wires' = chosen.wires
  /\ selected' = NoId
  /\ ClosureBeforeScoring
  /\ UNCHANGED << palette, crowd, dayNum, timeMin, running, goals, rewarded,
                  toast, connectFromGenId, undoStack, agents, agentsMade,
                  econTs, rafScheduled, call >>

(***************************************************************************)
(* Spec: a session of the App, from the empty board.                       *)
(***************************************************************************)
\* the item kinds picked from the palette
PaletteChoices == {"genny", "deck", "tent"}

\* the tiles clicked: the corner window, and one position off the grid
ClickTiles == ((0..MaxTileX) \X (0..MaxTileY)) \cup {<< -1, 0 >>}

ArrowKeys == {<< -1, 0 >>, << 1, 0 >>, << 0, -1 >>, << 0, 1 >>}

\* frame deltas, in frames of 1/60 s: 25 s (the tab was hidden for a while)
FrameDts == {1500}

\* one more event of a session of at most MaxSteps events
Budget == steps < MaxSteps /\ steps' = steps + 1

\* rotation is cosmetic and is left out of the sessions explored
Next ==
  \/ Budget /\ \E k \in PaletteChoices : setPalette(k)
  \/ Budget /\ \E t \in ClickTiles : onCanvasClick(t[1], t[2])
  \/ Budget /\ onKeyDelete
  \/ Budget /\ onKeyEscape
  \/ Budget /\ \E a \in ArrowKeys : onKeyArrow(a[1], a[2])
  \/ Budget /\ onToggleGenerator
  \/ Budget /\ onConnectStart
  \/ Budget /\ toggleRunning
  \/ Budget /\ onRefuel
  \/ Budget /\ undo
  \/ Budget /\ clearAll
  \/ Budget /\ toastEnd
  \/ Budget /\ \E chosen \in Saves : doManualLoad(chosen)
  \/ Budget /\ \E dt \in FrameDts : (running => dayNum <= MaxDay) /\ tick(dt)

allVars == << vars, steps >>

Spec == Init /\ [][Next]_allVars

(***************************************************************************)
(* SpecPower: computePowerFromWires as a function of its arguments, over   *)
(* every layout of a few items on distinct tiles and every short list of   *)
(* wires, among them repeated wires and wires to and from missing items.   *)
(***************************************************************************)
MaxArgItems == 3
MaxArgWires == 4

\* an id no item carries: the one after the last item's
MissingId == MaxArgItems + 1

\* the kinds of argument item: a running generator, one switched off, one
\* out of fuel, and consumers drawing 2, 1 and 0
ArgKinds == {"gennyOn", "gennyOff", "gennyDry", "speaker_l", "deck", "tent"}

ArgItem(kind, k) ==
  [id |-> k,
   defKey |-> IF kind \in {"gennyOn", "gennyOff", "gennyDry"} THEN "genny" ELSE kind,
   x |-> k - 1, y |-> 0, rot |-> 0,
   on |-> kind \in {"gennyOn", "gennyDry"},
   fuel |-> IF kind \in {"gennyOn", "gennyOff"} THEN FullFuel ELSE 0]

ArgItems == UNION {{[k \in 1..n |-> ArgItem(kinds[k], k)] : kinds \in [1..n -> ArgKinds]}
                     : n \in 0..MaxArgItems}

\* the wires tried on a layout: from each generator to each other item, of
\* stored length 1 or 2, to a missing item, and one from a missing item
ArgWirePool(its) ==
  {w \in [fromGenId : {its[k].id : k \in {m \in DOMAIN its : its[m].defKey = "genny"}},
          toItemId : ItemIds(its) \cup {MissingId},
          length : {1, 2}] :
     w.fromGenId # w.toItemId /\ (w.toItemId = MissingId => w.length = 1)}
  \cup {[fromGenId |-> MissingId, toItemId |-> its[k].id, length |-> 1] :
          k \in {m \in DOMAIN its : m = 1}}

\* full layouts take two wires fewer
ArgWireRoom(its) == IF Len(its) < MaxArgItems THEN MaxArgWires ELSE MaxArgWires - 2

ArgWires(its) == UNION {[1..n -> ArgWirePool(its)] : n \in 0..ArgWireRoom(its)}

InitPower ==
  /\ items \in ArgItems
  /\ wires \in ArgWires(items)
  /\ money = START_MONEY * MoneyUnit
  /\ InitSession

callComputePower ==
  /\ call = NoCall
  /\ call' = [fn |-> "computePowerFromWires",
              ret |-> computePowerFromWires(items, wires)]
  /\ UNCHANGED << items, wires, selected, palette, money, vibe, noise, crowd,
                  dayNum, timeMin, running, goals, rewarded, toast,
                  connectFromGenId, undoStack, agents, agentsMade, econTs,
                  rafScheduled, steps >>

NextPower == callComputePower

SpecPower == InitPower /\ [][NextPower]_allVars

(***************************************************************************)
(* SpecSim: the simulation of a resumed session.  The mount effect that    *)
(* resumes the last session sets items, money and wires from the save; the *)
(* player then starts and pauses the clock, selects items, switches the    *)
(* generator and refuels it while frames of a third of a second and of     *)
(* 25 seconds go by.                                                       *)
(***************************************************************************)
MaxSimSteps == 8

\* the same camp saved with its generator switched off
SaveCampOff ==
  [SaveCamp EXCEPT !.items = [k \in DOMAIN SaveCamp.items |->
                                IF SaveCamp.items[k].defKey = "genny"
                                  THEN [SaveCamp.items[k] EXCEPT !.on = FALSE]
                                  ELSE SaveCamp.items[k]]]

AutoSaves == {SaveCamp, SaveCampOff}

\* frame deltas, in frames of 1/60 s: 6 s and 25 s
SimDts == {360, 1500}

InitSim ==
  /\ \E s \in AutoSaves :
       /\ items = s.items
       /\ wires = s.wires
       /\ money = s.money
  /\ InitSession

\* the tiles clicked: those of the camp's items
SimTiles == {<< SaveCamp.items[k].x, SaveCamp.items[k].y >> : k \in DOMAIN SaveCamp.items}

SimBudget == steps < MaxSimSteps /\ steps' = steps + 1

NextSim ==
  \/ SimBudget /\ \E dt \in SimDts : tick(dt)
  \/ SimBudget /\ toggleRunning
  \/ SimBudget /\ \E t \in SimTiles : onCanvasClick(t[1], t[2])
  \/ SimBudget /\ onToggleGenerator
  \/ SimBudget /\ onRefuel

SpecSim == InitSim /\ [][NextSim]_allVars

(***************************************************************************)
(* SpecLive: frames of a session in progress.  A save is loaded while the  *)
(* clock is paused: doManualLoad replaces items, money and wires and       *)
(* leaves the crowd and the agents of the play so far.  Frames of 6, 25    *)
(* and 50 seconds follow (the browser calls no frame callback while the    *)
(* tab is hidden, and the first one after that carries the whole gap).     *)
(***************************************************************************)
MaxLiveSteps == 6

\* the crowd of the play so far, in tenths
LiveCrowds == {0, 436, 450, 1120, 4796, 5000}

LiveDts == {360, 1500, 3000}

InitLive ==
  /\ \E s \in AutoSaves :
       /\ items = s.items
       /\ wires = s.wires
       /\ money = s.money
  /\ selected = NoId
  /\ palette = "speaker_s"
  /\ vibe = 0
  /\ noise = 0
  /\ crowd \in LiveCrowds
  /\ dayNum = 1
  /\ timeMin = 0
  /\ running = FALSE
  /\ goals = [g \in GoalIds |-> "pending"]
  /\ rewarded = [g \in GoalIds |-> 0]
  /\ toast = NoToast
  /\ connectFromGenId = NoId
  /\ undoStack = << >>
  /\ agents = (IF crowd = 0 THEN << >> ELSE [k \in 1..TargetAgents(crowd) |-> k])
  /\ agentsMade = Len(agents)
  /\ econTs = 0
  /\ rafScheduled = TRUE
  /\ call = NoCall
  /\ steps = 0

LiveBudget == steps < MaxLiveSteps /\ steps' = steps + 1

NextLive ==
  \/ LiveBudget /\ \E dt \in LiveDts : tick(dt)
  \/ LiveBudget /\ toggleRunning

SpecLive == InitLive /\ [][NextLive]_allVars

(***************************************************************************)
(* SpecRun: a session left running.  Nothing is edited, refuelled, toggled *)
(* or undone: the only event is the frame callback, which schedules itself *)
(* again at its end, so that a frame always follows while the page is      *)
(* shown; the frames are a steady 6, 25 or 50 seconds apart.  The session  *)
(* is followed for MaxRunSteps frames.                                     *)
(***************************************************************************)
MaxRunSteps == 200

\* a lone running generator, nothing wired to it
SaveIdle ==
  [items |-> << [id |-> 101, defKey |-> "genny", x |-> 0, y |-> 0, rot |-> 0,
                 on |-> TRUE, fuel |-> FullFuel] >>,
   wires |-> << >>,
   money |-> (START_MONEY - 100) * MoneyUnit]

RunSaves == AutoSaves \cup {SaveIdle}

\* the time between two frames, in frames of 1/60 s
RunDts == {360, 1500, 3000}

InitRun ==
  /\ \E s \in RunSaves :
       /\ items = s.items
       /\ wires = s.wires
       /\ money = s.money
  /\ selected = NoId
  /\ palette = "speaker_s"
  /\ vibe = scoring.vibe
  /\ noise = scoring.noise
  /\ crowd \in LiveCrowds
  /\ dayNum = 1
  /\ timeMin = 0
  /\ running = TRUE
  /\ goals = [g \in GoalIds |-> "pending"]
  /\ rewarded = [g \in GoalIds |-> 0]
  /\ toast = NoToast
  /\ connectFromGenId = NoId
  /\ undoStack = << >>
  /\ agents = (IF crowd = 0 THEN << >> ELSE [k \in 1..TargetAgents(crowd) |-> k])
  /\ agentsMade = Len(agents)
  /\ econTs = 0
  /\ rafScheduled = TRUE
  /\ call \in {[fn |-> "requestAnimationFrame", dt |-> d] : d \in RunDts}
  /\ steps = 0

RunBudget == steps < MaxRunSteps /\ steps' = steps + 1

NextRun == RunBudget /\ tick(call.dt)

\* tick ends with requestAnimationFrame(tick): a frame is pending in every
\* state and the browser runs it while the page is shown.  Every step of
\* NextRun is a frame and counts one, so the fairness is on that count.
SpecRun == InitRun /\ [][NextRun]_allVars /\ WF_steps(RunBudget)

(***************************************************************************)
(* SpecEase: the updater the tick gives to setCrowd, as a function of the  *)
(* crowd it is applied to and of the target that the effect on [scoring]   *)
(* last stored in crowdTargetRef.                                          *)
(***************************************************************************)
\* the crowd, in tenths: every value from 0 to 500.0
EaseCrowds == 0..(10 * 500)

\* the score's vibe: below, at and beyond the values where the clamp acts
EaseVibes == {0, 1, 6, 28, 50, 100, 124, 125, 126, 200}

InitEase ==
  /\ items = << >>
  /\ wires = << >>
  /\ money = START_MONEY * MoneyUnit
  /\ selected = NoId
  /\ palette = "speaker_s"
  /\ vibe = 0
  /\ noise = 0
  /\ crowd \in EaseCrowds
  /\ dayNum = 1
  /\ timeMin = 0
  /\ running = TRUE
  /\ goals = [g \in GoalIds |-> "pending"]
  /\ rewarded = [g \in GoalIds |-> 0]
  /\ toast = NoToast
  /\ connectFromGenId = NoId
  /\ undoStack = << >>
  /\ agents = << >>
  /\ agentsMade = 0
  /\ econTs = 0
  /\ rafScheduled = TRUE
  /\ call \in {[fn |-> "args", vibe |-> v] : v \in EaseVibes}
  /\ steps = 0

\* crowdTargetRef.current = clamp(scoring.vibe * 4, 0, 500); setCrowd((c) => ...)
callSetCrowd ==
  /\ call.fn = "args"
  /\ LET target == clamp(call.vibe * 4, 0, 500)
     IN  /\ crowd' = EaseCrowd(crowd, target * 10)
         /\ call' = [fn |-> "setCrowd", vibe |-> call.vibe, target |-> target,
                     c |-> crowd]
  /\ UNCHANGED << items, wires, selected, palette, money, vibe, noise, dayNum,
                  timeMin, running, goals, rewarded, toast, connectFromGenId,
                  undoStack, agents, agentsMade, econTs, rafScheduled, steps >>

NextEase == callSetCrowd

SpecEase == InitEase /\ [][NextEase]_allVars

(***************************************************************************)
(* SpecUndo: one action on a small camp, then Ctrl+Z.  The camp is a       *)
(* running generator wired to a deck with a free tile beside them; an item *)
(* may be selected, a palette entry chosen and a connection begun.         *)
(***************************************************************************)
SaveUndo ==
  [items |-> << [id |-> 101, defKey |-> "genny", x |-> 0, y |-> 0, rot |-> 0,
                 on |-> TRUE, fuel |-> 30 * FuelUnit],
                [id |-> 102, defKey |-> "deck", x |-> 1, y |-> 0, rot |-> 0,
                 on |-> FALSE, fuel |-> 0] >>,
   wires |-> << [fromGenId |-> 101, toItemId |-> 102, length |-> 1] >>,
   money |-> 300 * MoneyUnit]

InitUndo ==
  /\ items = SaveUndo.items
  /\ wires = SaveUndo.wires
  /\ money = SaveUndo.money
  /\ selected \in {NoId, 101, 102}
  /\ palette \in ItemKey
  /\ vibe = scoring.vibe
  /\ noise = scoring.noise
  /\ crowd = 0
  /\ dayNum = 1
  /\ timeMin = 0
  /\ running = FALSE
  /\ goals = [g \in GoalIds |-> "pending"]
  /\ rewarded = [g \in GoalIds |-> 0]
  /\ toast = NoToast
  /\ connectFromGenId \in (IF selected = 102 THEN {NoId} ELSE {NoId, 101})
  /\ undoStack = << >>
  /\ agents = << >>
  /\ agentsMade = 0
  /\ econTs = NullTs
  /\ rafScheduled = TRUE
  /\ call = NoCall
  /\ steps = 0

\* the action that is undone, then the undo
ActionTurn == steps = 0 /\ steps' = 1
UndoTurn == steps = 1 /\ steps' = 2

NextUndo ==
  \/ ActionTurn /\ \E t \in ClickTiles : onCanvasClick(t[1], t[2])
  \/ ActionTurn /\ onKeyDelete
  \/ ActionTurn /\ onRefuel
  \/ ActionTurn /\ onToggleGenerator
  \/ UndoTurn /\ undo

SpecUndo == InitUndo /\ [][NextUndo]_allVars

(***************************************************************************)
(* Properties of the power allocator, checked under SpecPower.             *)
(***************************************************************************)
Returned == call.fn = "computePowerFromWires"

\* the draws a generator was charged for, one per allocation logged
ChargedTo(g, ret, its) ==
  SumSeq([n \in DOMAIN ret.allocs |->
            IF ret.allocs[n][1] = g
              THEN ITEM_DEFS[itemById(its, ret.allocs[n][2]).defKey].power
              ELSE 0])

\* C1: for every items and wires, repeated wires and wires naming missing
\* items included, every generator in the returned load mapping has a load of
\* at most 6, and that load is the sum of the draws of the consumers the
\* generator was allocated.
C1_LoadWithinCapacity ==
  Returned =>
    \A g \in DOMAIN call.ret.genLoads :
      /\ call.ret.genLoads[g] <= 6
      /\ call.ret.genLoads[g] = ChargedTo(g, call.ret, items)

\* a generator loaded to 6 that has four wires to large speakers: the fourth
\* was refused for lack of capacity
C1_Witness ==
  /\ Returned
  /\ \E g \in DOMAIN call.ret.genLoads :
       /\ call.ret.genLoads[g] = 6
       /\ Cardinality({k \in DOMAIN wires :
                         /\ wires[k].fromGenId = g
                         /\ wires[k].toItemId \in ItemIds(items)
                         /\ itemById(items, wires[k].toItemId).defKey = "speaker_l"}) = 4

\* C2: no consumer is allocated power by more than one generator: a consumer
\* a generator earlier in item order has powered is skipped by the later ones.
C2_OneGeneratorPerConsumer ==
  Returned =>
    \A a, b \in DOMAIN call.ret.allocs :
      call.ret.allocs[a][2] = call.ret.allocs[b][2]
        => call.ret.allocs[a][1] = call.ret.allocs[b][1]

(***************************************************************************)
(* Properties of the App's layout, checked under Spec.                     *)
(***************************************************************************)
\* the generator a wire leaves exists, is switched on and has fuel
LiveSource(w) ==
  \E m \in DOMAIN items :
    /\ items[m].id = w.fromGenId
    /\ items[m].defKey = "genny"
    /\ items[m].on
    /\ items[m].fuel > 0

\* C3: a tile is powered only if an item with a draw above 0 stands on it and
\* a wire joins that item to an existing generator that is on and has fuel; a
\* consumer no wire leads to is not powered, whatever was placed, connected,
\* toggled, deleted or ticked before.
C3_PoweredOnlyThroughLiveWire ==
  /\ \A t \in powerMap :
       \E k \in DOMAIN items :
         /\ << items[k].x, items[k].y >> = t
         /\ ITEM_DEFS[items[k].defKey].power > 0
         /\ \E n \in DOMAIN wires :
              wires[n].toItemId = items[k].id /\ LiveSource(wires[n])
  /\ \A k \in DOMAIN items :
       (/\ ITEM_DEFS[items[k].defKey].power > 0
        /\ \A n \in DOMAIN wires : wires[n].toItemId # items[k].id)
         => ~ TilePowered(powerMap, items[k])

\* a powered consumer next to a consumer no wire leads to
C3_Witness ==
  /\ powerMap # {}
  /\ \E k \in DOMAIN items :
       /\ ITEM_DEFS[items[k].defKey].power > 0
       /\ \A n \in DOMAIN wires : wires[n].toItemId # items[k].id

\* C4: a goal that is completed or failed keeps that status through every
\* frame and every action of the player (place, delete, undo, clear, load,
\* pause); a pending goal stays pending or becomes completed or failed.
C4_GoalStatusSettlesOnce ==
  [][\A g \in GoalIds :
       /\ goals[g] # "pending" => goals'[g] = goals[g]
       /\ goals'[g] \in {"pending", "completed", "failed"}]_allVars

\* one goal completed, another failed, and the board cleared afterwards
C4_Witness ==
  /\ goals["g1"] = "completed"
  /\ goals["g2"] = "failed"
  /\ items = << >>

\* the goals that turn completed in a step
CompletedNow == {g \in GoalIds : goals[g] = "pending" /\ goals'[g] = "completed"}

RewardsOf(gs) ==
  SumSeq([k \in DOMAIN GoalOrder |->
            IF GoalOrder[k] \in gs THEN defaultGoals[GoalOrder[k]].reward ELSE 0])

\* the money a running frame of delta dt leaves when the goals in gs are paid
MoneyAfterFrame(dt, gs) ==
  (IF money + FrameDelta(dt) * crowd < 0 THEN 0 ELSE money + FrameDelta(dt) * crowd)
  + RewardsOf(gs) * MoneyUnit

\* C5: the reward of a goal has been added to money once if the goal is
\* completed and never if it is pending or failed, and a running frame adds
\* to money the income and the rewards of the goals it completes.
C5_RewardPaidOnce ==
  /\ [](\A g \in GoalIds :
          rewarded[g] = IF goals[g] = "completed" THEN 1 ELSE 0)
  /\ [][\A dt \in FrameDts :
          (running /\ tick(dt)) => money' = MoneyAfterFrame(dt, CompletedNow)]_allVars

\* a completed goal, paid once, whose condition still held in a later frame
C5_Witness ==
  /\ goals["g1"] = "completed"
  /\ rewarded["g1"] = 1
  /\ dayNum = 2
  /\ condition("g1", buildSnapshot)

\* C9: no two items stand on the same tile, after any placing, nudging,
\* deleting, undoing and clearing.
C9_OneItemPerTile ==
  \A k, m \in DOMAIN items :
    (items[k].x = items[m].x /\ items[k].y = items[m].y) => k = m

\* two items on the board, one of them just nudged: the snapshot on top of
\* the undo stack holds the same items with one on another tile
C9_Witness ==
  /\ Len(items) >= 2
  /\ undoStack # << >>
  /\ LET before == undoStack[Len(undoStack)]
     IN  /\ Len(before) = Len(items)
         /\ \A k \in DOMAIN items : before[k].id = items[k].id
         /\ \E k \in DOMAIN items : before[k].x # items[k].x

\* C10: deleting the selected item removes that item and exactly the wires
\* that have it as generator or as consumer; every other item and every
\* other wire stays, in order.
C10_DeleteTakesOwnWires ==
  [][onKeyDelete =>
       LET keptItems == {k \in DOMAIN items : items[k].id # selected}
           keptWires == {n \in DOMAIN wires :
                           wires[n].fromGenId # selected /\ wires[n].toItemId # selected}
       IN  /\ Len(items') = Cardinality(keptItems)
           /\ Len(wires') = Cardinality(keptWires)
           /\ \A k \in keptItems :
                items'[Cardinality({j \in keptItems : j <= k})] = items[k]
           /\ \A n \in keptWires :
                wires'[Cardinality({j \in keptWires : j <= n})] = wires[n]]_allVars

\* the saved camp after its deck was deleted: the deck's wire is gone, the
\* speaker's wire is still there
C10_Witness ==
  /\ ItemIds(items) = {101, 103}
  /\ wires = << [fromGenId |-> 101, toItemId |-> 103, length |-> 2] >>
  /\ undoStack # << >>
  /\ undoStack[Len(undoStack)] = SaveCamp.items

(***************************************************************************)
(* Properties of the frame callback, checked under SpecSim.                *)
(***************************************************************************)
\* C6: in a running frame a pending goal whose condition is false on the
\* snapshot becomes failed exactly when the clock, read as (day, minute), is
\* strictly past the goal's deadline; at the deadline's very minute it stays
\* pending; and a goal that fails adds nothing to money.
C6_FailsStrictlyPastDeadline ==
  [][\A dt \in SimDts :
       (running /\ tick(dt)) =>
         /\ \A g \in GoalIds :
              (goals[g] = "pending" /\ ~ condition(g, buildSnapshot)) =>
                /\ goals'[g] = "failed"
                     <=> \/ dayNum > defaultGoals[g].deadlineDay
                         \/ /\ dayNum = defaultGoals[g].deadlineDay
                            /\ timeMin > defaultGoals[g].deadlineMin
                /\ goals'[g] # "failed" => goals'[g] = "pending"
                /\ (dayNum = defaultGoals[g].deadlineDay
                    /\ timeMin = defaultGoals[g].deadlineMin) => goals'[g] = "pending"
         /\ money' = MoneyAfterFrame(dt, CompletedNow)]_allVars

\* the first goal still pending, its condition false, after the frame that
\* read the clock at its deadline, day 1 18:00, and moved it to day 2 0:00
C6_Witness ==
  /\ goals["g1"] = "pending"
  /\ ~ condition("g1", buildSnapshot)
  /\ running
  /\ dayNum = 2
  /\ timeMin = 0

\* C7: a running frame of delta dt takes dt * (0.4 + 0.8 * load) off the
\* fuel of every generator that is on, stopping at 0; fuel never goes up and
\* never below 0; a generator whose fuel reaches 0 is off after that frame;
\* a generator that is off, and every other item, is left as it was.
C7_FuelDrain ==
  [][\A dt \in SimDts :
       (running /\ tick(dt)) =>
         /\ Len(items') = Len(items)
         /\ \A k \in DOMAIN items :
              LET load == IF items[k].id \in DOMAIN genLoads
                            THEN genLoads[items[k].id] ELSE 0
                  left == items[k].fuel - FrameDelta(dt) * (4 + 8 * load)
              IN  IF items[k].defKey = "genny" /\ items[k].on
                    THEN /\ items'[k].fuel = IF left < 0 THEN 0 ELSE left
                         /\ items'[k].fuel <= items[k].fuel
                         /\ items'[k].fuel >= 0
                         /\ items'[k].on <=> items'[k].fuel > 0
                         /\ [items'[k] EXCEPT !.fuel = 0, !.on = FALSE]
                              = [items[k] EXCEPT !.fuel = 0, !.on = FALSE]
                    ELSE items'[k] = items[k]]_allVars

\* a generator that ran dry and went off
C7_Witness ==
  \E k \in DOMAIN items :
    /\ items[k].defKey = "genny"
    /\ items[k].fuel = 0
    /\ ~ items[k].on
    /\ dayNum > 1

\* C8: a frame that arrives while the game is paused leaves crowd, agents,
\* money, every generator's fuel and on flag, the clock and the goals as
\* they were, and schedules the next frame.
C8_PausedFrameChangesNothing ==
  [][\A dt \in SimDts :
       (~ running /\ tick(dt)) =>
         /\ crowd' = crowd
         /\ agents' = agents
         /\ money' = money
         /\ items' = items
         /\ dayNum' = dayNum /\ timeMin' = timeMin
         /\ goals' = goals
         /\ rafScheduled']_allVars

\* a frame has come and gone on a paused camp whose crowd has somewhere to go
C8_Witness ==
  /\ econTs = 0
  /\ ~ running
  /\ crowdTarget > 0
  /\ crowd = 0
  /\ dayNum = 1 /\ timeMin = 0

(***************************************************************************)
(* SpecShop: a resumed session that is short of money.  The save holds a   *)
(* generator and a deck, not yet wired, and one free tile in the window;   *)
(* the player picks from the palette, clicks, starts connections, refuels, *)
(* deletes and undoes.                                                     *)
(***************************************************************************)
MaxShopSteps == 5

\* the money in the save, in dollars: below every price, enough for a wire
\* only, and enough for a tent or a refuel
ShopMoney == {4, 20, 60}

SaveShort(dollars) ==
  [items |-> << [id |-> 101, defKey |-> "genny", x |-> 0, y |-> 0, rot |-> 0,
                 on |-> TRUE, fuel |-> 30 * FuelUnit],
                [id |-> 102, defKey |-> "deck", x |-> 1, y |-> 0, rot |-> 0,
                 on |-> FALSE, fuel |-> 0] >>,
   wires |-> << >>,
   money |-> dollars * MoneyUnit]

InitShop ==
  /\ \E dollars \in ShopMoney :
       /\ items = SaveShort(dollars).items
       /\ wires = SaveShort(dollars).wires
       /\ money = SaveShort(dollars).money
  /\ InitSession

ShopBudget == steps < MaxShopSteps /\ steps' = steps + 1

NextShop ==
  \/ ShopBudget /\ \E k \in PaletteChoices : setPalette(k)
  \/ ShopBudget /\ \E t \in ClickTiles : onCanvasClick(t[1], t[2])
  \/ ShopBudget /\ onConnectStart
  \/ ShopBudget /\ onRefuel
  \/ ShopBudget /\ onKeyDelete
  \/ ShopBudget /\ undo

SpecShop == InitShop /\ [][NextShop]_allVars

(***************************************************************************)
(* SpecAlloc: computePowerFromWires for one running generator and two      *)
(* consumers under longer lists of wires, repeated wires among them, so    *)
(* that the generator's capacity runs out part-way through its links.      *)
(***************************************************************************)
MaxAllocWires == 5

AllocKinds == {"speaker_l", "deck", "tent"}

AllocItems ==
  {<< ArgItem("gennyOn", 1), ArgItem(a, 2), ArgItem(b, 3) >> : a, b \in AllocKinds}

AllocWirePool == [fromGenId : {1}, toItemId : {2, 3}, length : {1, 2}]

InitAlloc ==
  /\ items \in AllocItems
  /\ wires \in UNION {[1..n -> AllocWirePool] : n \in 0..MaxAllocWires}
  /\ money = START_MONEY * MoneyUnit
  /\ InitSession

NextAlloc == callComputePower

SpecAlloc == InitAlloc /\ [][NextAlloc]_allVars

(***************************************************************************)
(* SpecTwice: the three functions of a render evaluated twice in a row on  *)
(* the same arrays, as two renders without a state change in between do.   *)
(***************************************************************************)
MaxTwiceWires == 3

\* a call that sorts the wires array itself
ArgsSortedInPlace(its, ws) == [items |-> its, wires |-> SortByLength(ws)]

\* the arrays after a call: the functions write to powerMap, genLoads,
\* byGen and field, which they create, and sort the array that map and filter
\* return; no element of items or wires is assigned
ArgsAfterCall(its, ws) == [items |-> its, wires |-> ws]

\* computePowerFromWires(items, wires), then scoreAll and computeVibeField
\* with its powerMap
Evaluate(its, ws) ==
  LET p == computePowerFromWires(its, ws)
  IN  [powerMap |-> p.powerMap,
       genLoads |-> p.genLoads,
       score |-> scoreAll(its, p.powerMap),
       field |-> computeVibeField(its, p.powerMap)]

InitTwice ==
  /\ items \in AllocItems
  /\ wires \in UNION {[1..n -> AllocWirePool] : n \in 0..MaxTwiceWires}
  /\ money = START_MONEY * MoneyUnit
  /\ InitSession

evaluateOnce ==
  /\ call = NoCall
  /\ call' = [fn |-> "once", first |-> Evaluate(items, wires),
              items |-> items, wires |-> wires]
  /\ items' = ArgsAfterCall(items, wires).items
  /\ wires' = ArgsAfterCall(items, wires).wires
  /\ UNCHANGED << selected, palette, money, vibe, noise, crowd, dayNum,
                  timeMin, running, goals, rewarded, toast, connectFromGenId,
                  undoStack, agents, agentsMade, econTs, rafScheduled, steps >>

evaluateAgain ==
  /\ call.fn = "once"
  /\ call' = [fn |-> "twice", first |-> call.first,
              second |-> Evaluate(items, wires),
              items |-> call.items, wires |-> call.wires]
  /\ items' = ArgsAfterCall(items, wires).items
  /\ wires' = ArgsAfterCall(items, wires).wires
  /\ UNCHANGED << selected, palette, money, vibe, noise, crowd, dayNum,
                  timeMin, running, goals, rewarded, toast, connectFromGenId,
                  undoStack, agents, agentsMade, econTs, rafScheduled, steps >>

NextTwice == evaluateOnce \/ evaluateAgain

SpecTwice == InitTwice /\ [][NextTwice]_allVars

(***************************************************************************)
(* SpecScore: scoreAll as a function of its arguments, over every layout   *)
(* of a few items of any kind set on the corners of a square, and every    *)
(* power map over the tiles of those items.                                *)
(***************************************************************************)
MaxScoreItems == 4

\* the side of the square, in tiles: neighbours at 1, 2, 3 and 4 tiles
ScoreGaps == 1..4

ScoreItem(kind, k, gap) ==
  [id |-> k, defKey |-> kind,
   x |-> ((k - 1) % 2) * gap, y |-> ((k - 1) \div 2) * gap,
   rot |-> 0, on |-> kind = "genny", fuel |-> IF kind = "genny" THEN FullFuel ELSE 0]

ScoreItems ==
  UNION {{[k \in 1..n |-> ScoreItem(kinds[k], k, gap)] :
            kinds \in [1..n -> ItemKey], gap \in ScoreGaps} : n \in 0..MaxScoreItems}

TilesOf(its) == {<< its[k].x, its[k].y >> : k \in DOMAIN its}

ScoreArgs(layouts) ==
  /\ items \in layouts
  /\ wires = << >>
  /\ money = START_MONEY * MoneyUnit
  /\ selected = NoId
  /\ palette = "speaker_s"
  /\ vibe = 0
  /\ noise = 0
  /\ crowd = 0
  /\ dayNum = 1
  /\ timeMin = 0
  /\ running = FALSE
  /\ goals = [g \in GoalIds |-> "pending"]
  /\ rewarded = [g \in GoalIds |-> 0]
  /\ toast = NoToast
  /\ connectFromGenId = NoId
  /\ undoStack = << >>
  /\ agents = << >>
  /\ agentsMade = 0
  /\ econTs = NullTs
  /\ rafScheduled = TRUE
  /\ call \in {[fn |-> "args", powerMap |-> pm] : pm \in SUBSET TilesOf(items)}
  /\ steps = 0

InitScore == ScoreArgs(ScoreItems)

callScoreAll ==
  /\ call.fn = "args"
  /\ call' = [fn |-> "scoreAll", powerMap |-> call.powerMap,
              ret |-> scoreAll(items, call.powerMap)]
  /\ UNCHANGED << items, wires, selected, palette, money, vibe, noise, crowd,
                  dayNum, timeMin, running, goals, rewarded, toast,
                  connectFromGenId, undoStack, agents, agentsMade, econTs,
                  rafScheduled, steps >>

NextScore == callScoreAll

SpecScore == InitScore /\ [][NextScore]_allVars

(***************************************************************************)
(* SpecField: computeVibeField as a function of its arguments, over every  *)
(* layout of a few items of any kind in the corners and the middle of the  *)
(* grid, and every power map over the tiles of those items.                *)
(***************************************************************************)
MaxFieldItems == 2

\* two opposite corners, a tile near a corner and a tile in the middle
FieldSpots == {<< 0, 0 >>, << 2, 1 >>, << 10, 6 >>, << GRID_W - 1, GRID_H - 1 >>}

FieldItem(kind, k, spot) ==
  [id |-> k, defKey |-> kind, x |-> spot[1], y |-> spot[2], rot |-> 0,
   on |-> kind = "genny", fuel |-> IF kind = "genny" THEN FullFuel ELSE 0]

\* one item per tile, as canPlace keeps it
FieldItems ==
  UNION {{[k \in 1..n |-> FieldItem(kinds[k], k, spots[k])] :
            kinds \in [1..n -> ItemKey],
            spots \in {f \in [1..n -> FieldSpots] :
                         \A i, j \in 1..n : i # j => f[i] # f[j]}}
         : n \in 0..MaxFieldItems}

InitField == ScoreArgs(FieldItems)

callVibeField ==
  /\ call.fn = "args"
  /\ call' = [fn |-> "computeVibeField", powerMap |-> call.powerMap,
              ret |-> computeVibeField(items, call.powerMap)]
  /\ UNCHANGED << items, wires, selected, palette, money, vibe, noise, crowd,
                  dayNum, timeMin, running, goals, rewarded, toast,
                  connectFromGenId, undoStack, agents, agentsMade, econTs,
                  rafScheduled, steps >>

NextField == callVibeField

SpecField == InitField /\ [][NextField]_allVars

(***************************************************************************)
(* SpecLoud: scoreAll over layouts of speakers and decks, enough of them   *)
(* for the total noise to pass the cap of 12 and to reach 20 with every    *)
(* item powered.                                                           *)
(***************************************************************************)
MaxLoudItems == 5

LoudKinds == {"speaker_l", "deck"}

LoudGaps == {1, 4}

LoudItems ==
  UNION {{[k \in 1..n |-> ScoreItem(kinds[k], k, gap)] :
            kinds \in [1..n -> LoudKinds], gap \in LoudGaps} : n \in 0..MaxLoudItems}

InitLoud == ScoreArgs(LoudItems)

NextLoud == callScoreAll

SpecLoud == InitLoud /\ [][NextLoud]_allVars

(***************************************************************************)
(* Rejected actions, checked under Spec and SpecShop.                      *)
(***************************************************************************)
OffGrid(x, y) == x < 0 \/ y < 0 \/ x >= GRID_W \/ y >= GRID_H

Occupied(x, y) == \E k \in DOMAIN items : items[k].x = x /\ items[k].y = y

\* the coordinates probed: the window, the far edge, and one step past each edge
ProbeX == (-1)..(MaxTileX + 1) \cup {GRID_W - 1, GRID_W}
ProbeY == (-1)..(MaxTileY + 1) \cup {GRID_H - 1, GRID_H}

\* C11: canPlace is false for every tile outside the grid and for every tile
\* that holds an item, and a click that would place (no connection being
\* made) on such a tile leaves items, wires and money as they were: nothing
\* is placed there or on a nearby legal tile.
C11_IllegalPlacementRejected ==
  [][/\ \A x \in ProbeX, y \in ProbeY :
          (OffGrid(x, y) \/ Occupied(x, y)) => ~ canPlace(items, x, y)
     /\ \A t \in ClickTiles :
          (/\ connectFromGenId = NoId
           /\ OffGrid(t[1], t[2]) \/ Occupied(t[1], t[2])
           /\ onCanvasClick(t[1], t[2]))
            => /\ items' = items
               /\ wires' = wires
               /\ money' = money]_allVars

\* an item selected by a click on its tile while two tiles of the window
\* are taken: the click placed nothing
C11_Witness ==
  /\ HasSel
  /\ connectFromGenId = NoId
  /\ Len(items) = 2
  /\ undoStack # << >>
  /\ Len(undoStack[Len(undoStack)]) = 1

\* the first item on a tile, for a tile that holds one
ItemOn(x, y) == items[CHOOSE k \in DOMAIN items : k \in HitAt(x, y)]

\* C12: with money below the price (the item's cost to place, 5 + 2 x wire
\* length to wire, 25 to refuel) the action leaves items, and with them every
\* generator's fuel, wires, money and the undo history as they were.
C12_UnaffordableRejected ==
  [][/\ \A t \in ClickTiles :
          (/\ onCanvasClick(t[1], t[2])
           /\ connectFromGenId = NoId
           /\ ~ OffGrid(t[1], t[2]) /\ ~ Occupied(t[1], t[2])
           /\ money < ITEM_DEFS[palette].cost * MoneyUnit)
            => UNCHANGED << items, wires, money, undoStack >>
     /\ \A t \in ClickTiles :
          (/\ onCanvasClick(t[1], t[2])
           /\ connectFromGenId \in ItemIds(items)
           /\ Occupied(t[1], t[2])
           /\ ITEM_DEFS[ItemOn(t[1], t[2]).defKey].power > 0
           /\ money < (5 + 2 * (Abs(itemById(items, connectFromGenId).x - t[1])
                                + Abs(itemById(items, connectFromGenId).y - t[2])))
                      * MoneyUnit)
            => UNCHANGED << items, wires, money, undoStack >>
     /\ (onRefuel /\ money < 25 * MoneyUnit)
            => UNCHANGED << items, wires, money, undoStack >>]_allVars

\* the generator selected in a session whose money is below every price,
\* two events in: nothing was bought
C12_Witness ==
  /\ money = 4 * MoneyUnit
  /\ HasSel /\ sel.defKey = "genny"
  /\ steps >= 2
  /\ items = SaveShort(4).items
  /\ wires = << >>
  /\ undoStack = << >>

(***************************************************************************)
(* Properties of the allocator's order, checked under SpecAlloc, and of    *)
(* its load mapping and lookups, checked under SpecPower.                  *)
(***************************************************************************)
\* the wires that link generator g to an existing item
WiresOf(g) == {n \in DOMAIN wires :
                 wires[n].fromGenId = g /\ wires[n].toItemId \in ItemIds(items)}

\* wire m is considered before wire n: shorter, or as long and earlier in wires
Earlier(m, n) ==
  wires[m].length < wires[n].length \/ (wires[m].length = wires[n].length /\ m < n)

DrawOf(n) == ITEM_DEFS[itemById(items, wires[n].toItemId).defKey].power

\* the draw that the wires of g marked in P and considered before n have taken
TakenBefore(g, P, n) ==
  SumSeq([m \in DOMAIN wires |->
            IF m \in WiresOf(g) /\ Earlier(m, n) /\ P[m] THEN DrawOf(m) ELSE 0])

\* C13: for each running generator, going through its linked consumers by
\* ascending stored wire length, a consumer is powered exactly when its draw
\* is above 0 and at most what is left of the capacity of 6 at that point; one
\* that does not fit is skipped, later ones that fit are powered; a consumer
\* none of whose links was taken stays unpowered.
C13_ShortestFirstWhileItFits ==
  Returned =>
    \A g \in DOMAIN call.ret.genLoads :
      \E P \in [WiresOf(g) -> BOOLEAN] :
        /\ \A n \in WiresOf(g) :
             P[n] <=> (DrawOf(n) > 0 /\ DrawOf(n) <= 6 - TakenBefore(g, P, n))
        /\ LET mine == SelectSeq(call.ret.allocs, LAMBDA a : a[1] = g)
               taken == {n \in WiresOf(g) : P[n]}
           IN  /\ Len(mine) = Cardinality(taken)
               /\ \A n \in taken :
                    mine[Cardinality({m \in taken : m = n \/ Earlier(m, n)})][2]
                      = wires[n].toItemId
        /\ \A k \in DOMAIN items :
             TilePowered(call.ret.powerMap, items[k])
               <=> \E n \in WiresOf(g) : P[n] /\ wires[n].toItemId = items[k].id

\* draws 2, 2, 1, 2, 1 in that order: the fourth does not fit in the 1 left
\* and is skipped, the fifth fits and is powered
C13_Witness ==
  /\ Returned
  /\ items[2].defKey = "speaker_l" /\ items[3].defKey = "deck"
  /\ wires = << [fromGenId |-> 1, toItemId |-> 2, length |-> 1],
                [fromGenId |-> 1, toItemId |-> 2, length |-> 1],
                [fromGenId |-> 1, toItemId |-> 3, length |-> 1],
                [fromGenId |-> 1, toItemId |-> 2, length |-> 2],
                [fromGenId |-> 1, toItemId |-> 3, length |-> 2] >>
  /\ call.ret.allocs = << << 1, 2 >>, << 1, 2 >>, << 1, 3 >>, << 1, 3 >> >>
  /\ call.ret.genLoads[1] = 6

\* the generators among the items that are on and have fuel
RunningIds == {items[k].id : k \in {m \in DOMAIN items :
                 items[m].defKey = "genny" /\ items[m].on /\ items[m].fuel > 0}}

\* C14, as stated: a generator has an entry in the load mapping only if it is
\* on, has fuel above 0 and has at least one linked consumer.
C14_EntryOnlyWithConsumers ==
  Returned =>
    \A g \in DOMAIN call.ret.genLoads :
      g \in RunningIds /\ WiresOf(g) # {}

\* C14, amended: the load mapping has an entry for exactly the generators
\* that are on and have fuel above 0; a running generator without a linked
\* consumer has the entry 0 and powers no tile; generators that are off or
\* out of fuel have no entry and power no tile.
C14_EntryForRunningGenerators ==
  Returned =>
    /\ DOMAIN call.ret.genLoads = RunningIds
    /\ \A g \in RunningIds : WiresOf(g) = {} => call.ret.genLoads[g] = 0
    /\ \A n \in DOMAIN call.ret.allocs :
         /\ call.ret.allocs[n][1] \in RunningIds
         /\ WiresOf(call.ret.allocs[n][1]) # {}
    /\ \A k \in DOMAIN items :
         TilePowered(call.ret.powerMap, items[k])
           => \E n \in DOMAIN call.ret.allocs : call.ret.allocs[n][2] = items[k].id

\* a running generator no wire leaves, with the entry 0, beside a generator
\* out of fuel that has a wire to a consumer and no entry
C14_Witness ==
  /\ Returned
  /\ \E g \in RunningIds : WiresOf(g) = {} /\ call.ret.genLoads[g] = 0
  /\ \E k \in DOMAIN items :
       /\ items[k].defKey = "genny" /\ items[k].on /\ items[k].fuel = 0
       /\ WiresOf(items[k].id) # {}
       /\ items[k].id \notin DOMAIN call.ret.genLoads

\* the wires whose generator and consumer both exist
SoundWires ==
  SelectSeq(wires, LAMBDA w : w.fromGenId \in ItemIds(items)
                              /\ w.toItemId \in ItemIds(items))

\* C15: with wires whose consumer id or generator id matches no item, the
\* call returns, and returns the power map and the loads it returns for the
\* same items with those wires removed.
C15_DanglingWiresIgnored ==
  Returned =>
    /\ call.ret.powerMap = computePowerFromWires(items, SoundWires).powerMap
    /\ call.ret.genLoads = computePowerFromWires(items, SoundWires).genLoads

\* a wire to a missing consumer from a running generator that also powers a
\* consumer, and a wire from a missing generator
C15_Witness ==
  /\ Returned
  /\ call.ret.powerMap # {}
  /\ \E n \in DOMAIN wires :
       /\ wires[n].fromGenId \in RunningIds
       /\ wires[n].toItemId \notin ItemIds(items)
       /\ call.ret.genLoads[wires[n].fromGenId] > 0
  /\ \E n \in DOMAIN wires : wires[n].fromGenId \notin ItemIds(items)

\* ---------------------------------------------------------------------------
\* Properties of scoreAll, checked under SpecScore
\* ---------------------------------------------------------------------------

Scored == call.fn = "scoreAll"

\* the item draws power and powerMap has no entry for its tile
UnpoweredConsumer(it, pm) == ITEM_DEFS[it.defKey].power > 0 /\ ~ TilePowered(pm, it)

\* what the loop body adds to vibe for items[k]
VibeShare(k, pm) == RoundHalves(LocalVibe2(items[k], items, pm))

\* what the loop body adds to noise for items[k]
NoiseShare(k, pm) == IF LocalNoise(items[k], pm) < 0 THEN 0 ELSE LocalNoise(items[k], pm)

\* C16: every item that draws power and stands on an unpowered tile adds
\* exactly 0 to the total vibe and its base noise plus 1 to the total noise,
\* whatever stands near it; so a layout made only of such items scores vibe 0.
C16_UnpoweredContributesNothing ==
  Scored =>
    /\ \A k \in DOMAIN items :
         UnpoweredConsumer(items[k], call.powerMap) =>
           /\ VibeShare(k, call.powerMap) = 0
           /\ NoiseShare(k, call.powerMap) = ITEM_DEFS[items[k].defKey].noise + 1
    /\ (\A k \in DOMAIN items : UnpoweredConsumer(items[k], call.powerMap)) =>
         call.ret.vibe = 0

\* the noise half of C16 alone
C16_NoisePart ==
  Scored =>
    \A k \in DOMAIN items :
      UnpoweredConsumer(items[k], call.powerMap) =>
        NoiseShare(k, call.powerMap) = ITEM_DEFS[items[k].defKey].noise + 1

\* one unpowered small speaker next to one unpowered deck scores vibe 0
C16_SpeakerByDeck ==
  (/\ Scored
   /\ Len(items) = 2
   /\ items[1].defKey = "speaker_s" /\ items[2].defKey = "deck"
   /\ Within(items[1], items[2], 3)
   /\ call.powerMap = {}) => call.ret.vibe = 0


\* U: the sum over the items of the rounded local vibe
UncappedVibe(pm) == SumSeq([k \in DOMAIN items |-> VibeShare(k, pm)])

\* N: the total noise
TotalNoise(pm) == SumSeq([k \in DOMAIN items |-> NoiseShare(k, pm)])

\* round((n - 12) * 1.5) for an integer n > 12, half up
CapTerm(n) == (3 * (n - 12) + 1) \div 2

Max0(v) == IF v < 0 THEN 0 ELSE v

\* C17: scoreAll returns max(0, U) while the total noise N is at most 12,
\* and max(0, U - round((N - 12) * 1.5)) above it; at N = 20 that takes 12
\* off U.
C17_NoiseSoftCap ==
  Scored =>
    LET U == UncappedVibe(call.powerMap)
        N == TotalNoise(call.powerMap)
    IN  /\ call.ret.noise = N
        /\ N <= 12 => call.ret.vibe = Max0(U)
        /\ N > 12 => call.ret.vibe = Max0(U - CapTerm(N))
        /\ N = 20 => call.ret.vibe = Max0(U - 12)

\* five powered large speakers apart from each other: N = 20, U = 60, vibe 48
C17_Witness ==
  /\ Scored
  /\ TotalNoise(call.powerMap) = 20
  /\ UncappedVibe(call.powerMap) = 60
  /\ call.ret.vibe = 48


\* the layout is exactly one deck and one small speaker within 3 of it
DeckAndSmallSpeaker ==
  /\ Len(items) = 2
  /\ \E d, sp \in 1..2 :
       /\ items[d].defKey = "deck"
       /\ items[sp].defKey = "speaker_s"
       /\ (items[d].x - items[sp].x) * (items[d].x - items[sp].x)
            + (items[d].y - items[sp].y) * (items[d].y - items[sp].y) <= 9

\* C18: one deck and one small speaker within distance 3 of it, both on
\* powered tiles, score vibe 19 and noise 3.
C18_DeckAndSpeakerScore ==
  (Scored /\ DeckAndSmallSpeaker /\ call.powerMap = TilesOf(items)) =>
    call.ret = [vibe |-> 19, noise |-> 3]

\* the speaker stands exactly 3 tiles from the deck
C18_Witness ==
  /\ Scored
  /\ DeckAndSmallSpeaker
  /\ call.powerMap = TilesOf(items)
  /\ Abs(items[1].x - items[2].x) = 3
  /\ call.ret = [vibe |-> 19, noise |-> 3]


\* C19: whatever the layout and the power map, the vibe and the noise that
\* scoreAll returns are integers that are at least 0, also when the penalties
\* outweigh the bonuses.
C19_ScoreNonNegative ==
  Scored => (call.ret.vibe \in Nat /\ call.ret.noise \in Nat)

\* penalties outweigh bonuses: the sum before the floor is below 0 through a
\* tent near a large speaker, and the returned vibe is 0
C19_Witness ==
  /\ Scored
  /\ UncappedVibe(call.powerMap) < 0
  /\ \E k, t \in DOMAIN items :
       /\ items[k].defKey = "speaker_l"
       /\ items[t].defKey = "tent"
       /\ Within(items[t], items[k], 2)
  /\ \E k, j \in DOMAIN items :
       /\ k # j
       /\ items[k].defKey \in {"speaker_s", "speaker_l"}
       /\ items[j].defKey \in {"speaker_s", "speaker_l"}
       /\ Within(items[k], items[j], 2)
  /\ call.ret.vibe = 0


\* the two power maps agree on the tile of item it
SameOwnPower(it, pm1, pm2) == TilePowered(pm1, it) <=> TilePowered(pm2, it)

\* the layout is one item of kind a and one of kind b within r of each other,
\* the first on a powered tile and the second's tile as the flag says
PairScored(a, b, r, aPowered, bPowered) ==
  /\ Scored
  /\ Len(items) = 2
  /\ \E i, j \in 1..2 :
       /\ items[i].defKey = a
       /\ items[j].defKey = b
       /\ Within(items[i], items[j], r)
       /\ TilePowered(call.powerMap, items[i]) = aPowered
       /\ TilePowered(call.powerMap, items[j]) = bPowered

\* C20: what an item adds to the vibe depends on the kinds and places of the
\* other items and on its own tile's power, never on the power of the others'
\* tiles: a powered small speaker within 3 of a deck adds 6 + 3 with the deck
\* powered (total 19) and with the deck unpowered (total 9), and a tent
\* within 2 of a light adds 4 + 3 with the light powered (total 12) and with
\* the light unpowered (total 7).
C20_BonusesIgnoreOthersPower ==
  /\ Scored =>
       \A k \in DOMAIN items : \A pm \in SUBSET TilesOf(items) :
         SameOwnPower(items[k], call.powerMap, pm) =>
           VibeShare(k, pm) = VibeShare(k, call.powerMap)
  /\ PairScored("speaker_s", "deck", 3, TRUE, TRUE) => call.ret.vibe = 19
  /\ PairScored("speaker_s", "deck", 3, TRUE, FALSE) => call.ret.vibe = 9
  /\ PairScored("tent", "light", 2, FALSE, TRUE) => call.ret.vibe = 12
  /\ PairScored("tent", "light", 2, FALSE, FALSE) => call.ret.vibe = 7

\* a powered small speaker by an unpowered deck and a tent by an unpowered
\* light: 9 + 0 + 7 + 0
C20_Witness ==
  /\ Scored
  /\ Len(items) = 4
  /\ \E sp, d, t, l \in 1..4 :
       /\ items[sp].defKey = "speaker_s"
       /\ items[d].defKey = "deck"
       /\ items[t].defKey = "tent"
       /\ items[l].defKey = "light"
       /\ Within(items[sp], items[d], 3)
       /\ Within(items[t], items[l], 2)
       /\ call.powerMap = {<< items[sp].x, items[sp].y >>}
       /\ VibeShare(sp, call.powerMap) = 9
       /\ VibeShare(t, call.powerMap) = 7
  /\ call.ret.vibe = 16


\* ---------------------------------------------------------------------------
\* The memo chain of a render, checked under Spec
\* ---------------------------------------------------------------------------

\* the power map of the items and wires of this state
FreshPowerMap == computePowerFromWires(items, wires).powerMap

\* the cells around the tiles in play and at the far edges of the grid
FieldProbe == (ProbeX \X ProbeY) \cap GridCells

Elapsed == (dayNum - 1) * 1440 + timeMin

\* C22: the in-game time (day - 1) * 1440 + minute grows by 60 minutes per
\* real second of every running frame (one minute per frame unit of 1/60 s)
\* and by nothing otherwise, and the day counter grows by the number of
\* midnights the step crosses.
C22_ClockTracksRunningTime ==
  [][/\ Elapsed' - Elapsed \in (IF running THEN LiveDts \cup {0} ELSE {0})
     /\ dayNum' - dayNum = (Elapsed' \div 1440) - (Elapsed \div 1440)]_allVars

\* the first half of C22 alone
C22_ElapsedPart ==
  [][Elapsed' - Elapsed \in (IF running THEN LiveDts \cup {0} ELSE {0})]_allVars

\* C29: the minute of the day is at least 0 and below 1440 in every state.
C29_MinuteOfDayInRange == timeMin >= 0 /\ timeMin < 1440


\* ---------------------------------------------------------------------------
\* The crowd easing, checked under SpecEase
\* ---------------------------------------------------------------------------

Eased == call.fn = "setCrowd"

\* min(|diff|, 1.5 + 0.02 * |diff|) for a distance of a tenths, in 1/500
ExactStep500(a) == IF 50 * a <= 750 + a THEN 50 * a ELSE 750 + a

\* C23: the crowd moves toward clamp(vibe * 4, 0, 500) by
\* min(|diff|, 1.5 + 0.02 * |diff|), kept to the nearest tenth: it ends
\* between where it was and the target, it stays put when it is at the
\* target, it moves when it is not, and it stays within 0 and 500; a vibe of
\* 50 gives the target 200.
C23_CrowdEasesTowardTarget ==
  Eased =>
    LET t == call.target * 10
        a == Abs(t - call.c)
        moved == Abs(crowd - call.c)
    IN  /\ call.target = (IF call.vibe * 4 > 500 THEN 500 ELSE call.vibe * 4)
        /\ call.vibe = 50 => call.target = 200
        /\ (call.c <= t) => (call.c <= crowd /\ crowd <= t)
        /\ (call.c >= t) => (t <= crowd /\ crowd <= call.c)
        /\ (call.c = t) => crowd = call.c
        /\ (call.c # t) => crowd # call.c
        /\ Abs(50 * moved - ExactStep500(a)) <= 25
        /\ crowd >= 0 /\ crowd <= 10 * 500

\* a step limited by the speed: from 0 toward 200 the crowd moves 1.5 + 4
C23_Witness ==
  /\ Eased
  /\ call.vibe = 50
  /\ call.c = 0
  /\ crowd = 55


\* ---------------------------------------------------------------------------
\* The agents, checked under SpecLive
\* ---------------------------------------------------------------------------

\* under SpecLive a step that starts and ends running is a frame
RunningFrame == running /\ running'

\* C24: after a running frame the agent list has clamp(floor(crowd / 4), 10,
\* 120) entries for the crowd that frame read, so from then on between 10 and
\* 120; a longer list loses its last entries only, and a shorter list keeps
\* every entry it had and gets new ones after them.
C24_AgentCountFollowsCrowd ==
  /\ [](agents # << >> => (Len(agents) >= 10 /\ Len(agents) <= 120))
  /\ [][RunningFrame =>
          LET floor4 == crowd \div 40
              n == IF floor4 < 10 THEN 10 ELSE IF floor4 > 120 THEN 120 ELSE floor4
              kept == IF Len(agents) < n THEN Len(agents) ELSE n
          IN  /\ Len(agents') = n
              /\ \A k \in 1..kept : agents'[k] = agents[k]
              /\ \A k \in (kept + 1)..n : agents'[k] \notin {agents[j] : j \in DOMAIN agents}]_allVars

\* the crowd fell from 45 to 43.1 and the eleventh agent was dropped
C24_Witness ==
  /\ Len(agents) = 10
  /\ agentsMade = 11
  /\ agents = [k \in 1..10 |-> k]
  /\ crowd < 440

\* the crowd stands at 500 and the list has been cut to the cap of 120
C24_AtCap ==
  /\ crowd >= 4800
  /\ Len(agents) = 120
  /\ running

\* the crowd rose past 44 and an eleventh agent joined the ten
C24_Grown ==
  /\ Len(agents) = 11
  /\ agentsMade = 11
  /\ crowd > 450


\* ---------------------------------------------------------------------------
\* Properties of computeVibeField, checked under SpecField
\* ---------------------------------------------------------------------------

FieldReturned == call.fn = "computeVibeField"

\* the item has a positive base vibe, and is powered if it draws power
Radiates(it, pm) ==
  /\ ITEM_DEFS[it.defKey].baseVibe > 0
  /\ (ITEM_DEFS[it.defKey].power > 0 => << it.x, it.y >> \in pm)

\* max(1, range) + 2
HalfWidth(it) ==
  (IF ITEM_DEFS[it.defKey].range > 1 THEN ITEM_DEFS[it.defKey].range ELSE 1) + 2

\* C25: the field has a cell for every tile of the grid and no other, every
\* cell is at least 0, and a cell is above 0 exactly when it is within
\* max(1, range) + 2 columns and rows of an item that has a positive base
\* vibe and is powered if it draws power; unpowered consumers and generators
\* raise no cell.
C25_FieldSupport ==
  FieldReturned =>
    /\ DOMAIN call.ret = (0..19) \X (0..11)
    /\ \A c \in DOMAIN call.ret :
         /\ call.ret[c] >= 0
         /\ call.ret[c] > 0 <=>
              \E k \in DOMAIN items :
                /\ Radiates(items[k], call.powerMap)
                /\ Abs(c[1] - items[k].x) <= HalfWidth(items[k])
                /\ Abs(c[2] - items[k].y) <= HalfWidth(items[k])
    /\ (\A k \in DOMAIN items : ~ Radiates(items[k], call.powerMap)) =>
         \A c \in DOMAIN call.ret : call.ret[c] = 0

\* a powered small speaker in the far corner raises the cells up to 5 away
\* and none beyond; the unpowered deck in the near corner raises none
C25_Witness ==
  /\ FieldReturned
  /\ \E k, d \in DOMAIN items :
       /\ items[k].defKey = "speaker_s" /\ items[k].x = 19 /\ items[k].y = 11
       /\ << 19, 11 >> \in call.powerMap
       /\ items[d].defKey = "deck" /\ items[d].x = 0 /\ items[d].y = 0
       /\ << 0, 0 >> \notin call.powerMap
  /\ call.ret[<< 14, 6 >>] > 0
  /\ call.ret[<< 13, 6 >>] = 0
  /\ call.ret[<< 14, 5 >>] = 0
  /\ call.ret[<< 0, 0 >>] = 0


\* ---------------------------------------------------------------------------
\* Repeated evaluation, checked under SpecTwice
\* ---------------------------------------------------------------------------

ZeroDraw == {k \in DOMAIN items : ITEM_DEFS[items[k].defKey].power = 0}

\* the wires with one more wire from generator g to item z
WithWire(g, z) ==
  Append(wires, [fromGenId |-> items[g].id, toItemId |-> items[z].id,
                 length |-> Abs(items[g].x - items[z].x) + Abs(items[g].y - items[z].y)])

\* C27: an item whose power draw is 0 is never a consumer.  A click on it
\* while a connection is being made leaves wires, money, items and the undo
\* history as they were, so no wire in state points to such an item; and a
\* wire that did point to one would change neither the power map nor any
\* generator's load.
C27_ZeroDrawNeverConsumer ==
  /\ [](/\ \A n \in DOMAIN wires :
             wires[n].toItemId \in ItemIds(items) =>
               ITEM_DEFS[itemById(items, wires[n].toItemId).defKey].power > 0
        /\ \A g \in DOMAIN items : \A z \in ZeroDraw :
             items[g].defKey = "genny" =>
               /\ computePowerFromWires(items, WithWire(g, z)).powerMap
                    = computePowerFromWires(items, wires).powerMap
               /\ computePowerFromWires(items, WithWire(g, z)).genLoads
                    = computePowerFromWires(items, wires).genLoads)
  /\ [][\A t \in ClickTiles :
          (/\ connectFromGenId # NoId
           /\ \E k \in ZeroDraw : items[k].x = t[1] /\ items[k].y = t[2]
           /\ onCanvasClick(t[1], t[2]))
            => /\ UNCHANGED << items, wires, money, undoStack >>
               /\ connectFromGenId' = NoId]_allVars

\* a connection is being made from a generator, a tent stands on the board,
\* and one more event can follow: the click on the tent
C27_Witness ==
  /\ connectFromGenId \in ItemIds(items)
  /\ \E k \in DOMAIN items : items[k].defKey = "tent"
  /\ steps < MaxSteps

\* a connection is being made from a running generator that carries load
C27_RunningWitness ==
  /\ connectFromGenId \in ItemIds(items)
  /\ IsRunningGen(itemById(items, connectFromGenId))
  /\ computePowerFromWires(items, wires).powerMap # {}
  /\ steps < MaxSteps


\* ---------------------------------------------------------------------------
\* Generator fuel, checked under Spec
\* ---------------------------------------------------------------------------

\* fuel is kept in 1/600 of a percent
Percent(p) == p * 600

\* C28: every generator's fuel is between 0 and 100 in every state; a
\* generator that is placed starts at 100 and switched off; a refuel that is
\* paid for costs exactly 25, raises the selected generator's fuel by 50 up
\* to 100 at most, and changes neither its on flag nor any other item.
C28_FuelWithinRange ==
  /\ [](\A k \in DOMAIN items :
          items[k].defKey = "genny" =>
            (items[k].fuel >= 0 /\ items[k].fuel <= Percent(100)))
  /\ [][/\ \A t \in ClickTiles :
             (/\ onCanvasClick(t[1], t[2])
              /\ Len(items') = Len(items) + 1
              /\ items'[Len(items')].defKey = "genny")
               => /\ items'[Len(items')].fuel = Percent(100)
                  /\ ~ items'[Len(items')].on
        /\ (onRefuel /\ money >= 25 * MoneyUnit) =>
             /\ money' = money - 25 * MoneyUnit
             /\ \A k \in DOMAIN items :
                  IF items[k].id = selected
                    THEN /\ items'[k].fuel =
                              (IF items[k].fuel + Percent(50) > Percent(100)
                                 THEN Percent(100)
                                 ELSE items[k].fuel + Percent(50))
                         /\ items'[k].on = items[k].on
                         /\ [items'[k] EXCEPT !.fuel = 0] = [items[k] EXCEPT !.fuel = 0]
                    ELSE items'[k] = items[k]]_allVars

\* the camp's generator ran 25 seconds under load 3, from 100 down to 30,
\* was refuelled to 80 for 25, and is still on
C28_Witness ==
  /\ \E k \in DOMAIN items :
       /\ items[k].defKey = "genny"
       /\ items[k].fuel = Percent(80)
       /\ items[k].on
  /\ \E n \in DOMAIN undoStack : \E k \in DOMAIN undoStack[n] :
       /\ undoStack[n][k].defKey = "genny"
       /\ undoStack[n][k].fuel = Percent(30)
  /\ money < SaveCamp.money + MoneyUnit


\* ---------------------------------------------------------------------------
\* Stored wire lengths, checked under Spec
\* ---------------------------------------------------------------------------

\* C30: for every wire whose generator and consumer both exist, the stored
\* length is the Manhattan distance between the two items as they stand now.
C30_WireLengthIsDistance ==
  \A n \in DOMAIN wires :
    (wires[n].fromGenId \in ItemIds(items) /\ wires[n].toItemId \in ItemIds(items)) =>
      wires[n].length =
        Abs(itemById(items, wires[n].fromGenId).x - itemById(items, wires[n].toItemId).x)
        + Abs(itemById(items, wires[n].fromGenId).y - itemById(items, wires[n].toItemId).y)

\* the part of C30 that holds: a wire carries the distance of the moment the
\* click made it
C30_LengthAtCreation ==
  [][\A t \in ClickTiles :
       (onCanvasClick(t[1], t[2]) /\ Len(wires') = Len(wires) + 1) =>
         LET w == wires'[Len(wires')]
         IN  w.length = Abs(itemById(items, w.fromGenId).x - itemById(items, w.toItemId).x)
                        + Abs(itemById(items, w.fromGenId).y - itemById(items, w.toItemId).y)]_allVars


\* ---------------------------------------------------------------------------
\* Wires and the items they name, checked under Spec
\* ---------------------------------------------------------------------------

\* C31: every wire in state names a generator and a consumer that are both
\* among the items of that state.
C31_NoDanglingWire ==
  \A n \in DOMAIN wires :
    /\ wires[n].fromGenId \in ItemIds(items)
    /\ wires[n].toItemId \in ItemIds(items)

\* the part of C31 that holds: Delete takes the wires of the deleted item,
\* and clearAll takes them all
C31_DeleteAndClearPart ==
  [][/\ onKeyDelete => \A n \in DOMAIN wires' :
                         wires'[n].fromGenId # selected /\ wires'[n].toItemId # selected
     /\ clearAll => wires' = << >>]_allVars


\* ---------------------------------------------------------------------------
\* Undo, checked under SpecUndo
\* ---------------------------------------------------------------------------

\* an action and the undo have both been done
Undone == steps = 2

\* C32: after place, delete, connect, refuel or toggle followed by undo,
\* items, wires and money are what they were before the action.
C32_UndoIsInverse ==
  Undone =>
    /\ items = SaveUndo.items
    /\ wires = SaveUndo.wires
    /\ money = SaveUndo.money

\* the part of C32 that holds: the items come back
C32_ItemsPart == Undone => items = SaveUndo.items

\* the deletion refund is not kept after the undo
C32_RefundNotKept == Undone => money <= SaveUndo.money


\* ---------------------------------------------------------------------------
\* Repeated wires, checked under SpecAlloc
\* ---------------------------------------------------------------------------

\* the consumers generator g was allocated, each once
ConsumersOf(g) ==
  {call.ret.allocs[n][2] : n \in {m \in DOMAIN call.ret.allocs : call.ret.allocs[m][1] = g}}

\* the sum of the draws of the distinct consumers of g
DistinctDraw(g) ==
  SumSeq([k \in DOMAIN items |->
            IF items[k].id \in ConsumersOf(g)
              THEN ITEM_DEFS[items[k].defKey].power ELSE 0])

\* C33: a generator's load is the sum of the draws of the distinct consumers
\* it powers, however many wires link it to each of them.
C33_DrawCountedOnce ==
  Returned =>
    \A g \in DOMAIN call.ret.genLoads :
      call.ret.genLoads[g] = DistinctDraw(g)

\* the part of C33 that holds: with no two wires between the same pair, the
\* load is the sum of the draws of the consumers powered
C33_SingleWiresPart ==
  (Returned /\ \A m, n \in DOMAIN wires :
                 (m # n) => wires[m].toItemId # wires[n].toItemId) =>
    \A g \in DOMAIN call.ret.genLoads :
      call.ret.genLoads[g] = DistinctDraw(g)


\* ---------------------------------------------------------------------------
\* Goals and deadlines, checked under SpecSim
\* ---------------------------------------------------------------------------

\* the clock of this state is strictly past the deadline of goal g
PastDeadline(g) ==
  \/ dayNum > defaultGoals[g].deadlineDay
  \/ /\ dayNum = defaultGoals[g].deadlineDay
     /\ timeMin > defaultGoals[g].deadlineMin

\* C34: a goal becomes completed only in a frame that reads a clock not
\* strictly past the goal's deadline, and a goal that is pending in a running
\* frame that reads a clock past its deadline becomes failed.
C34_NoCompletionPastDeadline ==
  [][\A g \in GoalIds :
       /\ (goals[g] = "pending" /\ goals'[g] = "completed") => ~ PastDeadline(g)
       /\ \A dt \in SimDts :
            (running /\ tick(dt) /\ goals[g] = "pending" /\ PastDeadline(g)) =>
              goals'[g] = "failed"]_allVars

\* the part of C34 that holds: past the deadline a pending goal whose
\* condition is false fails
C34_FailsWhenUnmet ==
  [][\A g \in GoalIds : \A dt \in SimDts :
       (/\ running /\ tick(dt) /\ goals[g] = "pending" /\ PastDeadline(g)
        /\ ~ condition(g, buildSnapshot)) =>
         goals'[g] = "failed"]_allVars


\* ---------------------------------------------------------------------------
\* Money, checked under Spec
\* ---------------------------------------------------------------------------

\* C35: money is at least 0 in every state, and a running frame never
\* lowers it.
C35_MoneyNeverNegative ==
  /\ [](money >= 0)
  /\ [][\A dt \in FrameDts : (running /\ tick(dt)) => money' >= money]_allVars

\* the camp's money after four refuels, a crowd present: 114 - 100 = 14,
\* plus the income of a frame
C35_Witness ==
  /\ money < REFUEL_COST * MoneyUnit
  /\ money > 0
  /\ undoStack # << >>
  /\ running
  /\ crowd > 0

\* the money is below every price on the palette and below a refuel
C35_Broke ==
  /\ money < REFUEL_COST * MoneyUnit
  /\ HasSel /\ sel.defKey = "genny"
  /\ steps < MaxSteps


\* ---------------------------------------------------------------------------
\* Paused time, checked under SpecLive
\* ---------------------------------------------------------------------------

\* the rewards a step paid, in money units
PaidBy(before, after) ==
  SumSeq([k \in DOMAIN GoalOrder |->
            (after[GoalOrder[k]] - before[GoalOrder[k]])
              * defaultGoals[GoalOrder[k]].reward]) * MoneyUnit

\* C36: time that passes while paused is never credited.  A frame that finds
\* the simulation paused changes neither clock, money, fuel nor crowd,
\* however long it is; no step advances the clock while paused or before the
\* first frame; and a step that advances the clock advances it by the
\* length of one frame, the income and the fuel burnt being those of that
\* one frame.
C36_PausedTimeNotCredited ==
  [][LET a == Elapsed' - Elapsed
     IN  /\ (~ running) => a = 0
         /\ econTs = NullTs => a = 0
         /\ a \in LiveDts \cup {0}
         /\ \A dt \in LiveDts :
              ((~ running) /\ tick(dt)) =>
                UNCHANGED << timeMin, dayNum, money, items, crowd >>
         /\ a > 0 =>
              /\ money' = money + a * crowd + PaidBy(rewarded, rewarded')
              /\ items' = [k \in DOMAIN items |-> DrainFuel(items[k], genLoads, a)]
    ]_allVars

\* a paused frame, the resume, then one running frame of 6 seconds: three
\* events that leave the clock 6 minutes on, with income and fuel burnt
C36_Witness ==
  /\ steps = 3
  /\ running
  /\ Elapsed = 360
  /\ crowd > 0
  /\ \E k \in DOMAIN items : items[k].defKey = "genny" /\ items[k].fuel < FullFuel


\* ---------------------------------------------------------------------------
\* A session left running, checked under SpecRun
\* ---------------------------------------------------------------------------

\* C37: while the simulation stays running and nothing is edited, the crowd
\* eventually equals the target exactly and stays equal to it from then on.
C37_CrowdSettles == <>[](running /\ crowd = crowdTarget * 10)

\* a crowd that is at a target above 0 and is none of the crowds the
\* sessions start from: the frames brought it there
C37_Witness ==
  /\ running
  /\ steps > 0
  /\ steps < MaxRunSteps
  /\ crowdTarget > 0
  /\ crowd = crowdTarget * 10
  /\ crowd \notin LiveCrowds


\* the generators of the camps the sessions start from
RunGenIds ==
  UNION {{s.items[k].id : k \in {m \in DOMAIN s.items : s.items[m].defKey = "genny"}} :
           s \in RunSaves}

GenOn(id) ==
  \E k \in DOMAIN items :
    items[k].id = id /\ items[k].defKey = "genny" /\ items[k].on

\* the consumers whose wires all come from generator id
WiredOnlyTo(id) ==
  {k \in DOMAIN items :
     /\ DrawsPower(items[k])
     /\ \E w \in DOMAIN wires : wires[w].toItemId = items[k].id
     /\ \A w \in DOMAIN wires :
          wires[w].toItemId = items[k].id => wires[w].fromGenId = id}

\* generator id is empty and off, no consumer is allocated to it and the
\* consumers wired only to it are unpowered
RanDry(id) ==
  /\ \E k \in DOMAIN items :
       items[k].id = id /\ (~ items[k].on) /\ items[k].fuel = 0
  /\ id \in DOMAIN genLoads => genLoads[id] = 0
  /\ \A n \in DOMAIN powerResult.allocs : powerResult.allocs[n][1] # id
  /\ \A k \in WiredOnlyTo(id) : ~ TilePowered(powerMap, items[k])

\* C38: while the simulation stays running on positive frame deltas and
\* nothing is refuelled, toggled or undone, every generator that is on
\* eventually reaches fuel 0 and is turned off, and from then on it stays
\* off, supplies no power, and every consumer wired only to it is unpowered.
C38_GeneratorsRunDry ==
  \A id \in RunGenIds : [](GenOn(id) => <>[]RanDry(id))

\* a generator that has run dry within the frames followed, with consumers
\* wired only to it
C38_Witness ==
  /\ running
  /\ steps > 0
  /\ steps < MaxRunSteps
  /\ \E id \in RunGenIds : RanDry(id) /\ WiredOnlyTo(id) # {}

\* the frame in which a generator that was on is turned off
C38_TurnedOffAtZero ==
  [][\A k \in DOMAIN items :
       (items[k].defKey = "genny" /\ items[k].on /\ ~ items'[k].on) =>
         (items'[k].fuel = 0 /\ items[k].fuel > 0)]_allVars


=============================================================================
